---------------------------- MODULE Spec2Model ----------------------------
(***************************************************************************)
(* Verification model of the AI playlist generation pipeline of            *)
(* server/routes (src/unnamed/part_006): the progress tracker              *)
(* (playlistProgressMap, updatePlaylistProgress), the track collector      *)
(* (collectTracks), the audio-feature enrichment loop, the scorer          *)
(* (filterTracksByAIAnalysis) and the POST /generate-playlist handler that  *)
(* ties them together.                                                     *)
(*                                                                         *)
(* One action is one synchronous segment of the handler: the code that     *)
(* runs between two await points.  External calls (Spotify, the LLM, the   *)
(* database) answer with an outcome drawn from a small set.                *)
(*                                                                         *)
(* Numbers: a score is kept as an integer in units of 1/80, audio          *)
(* features and the analysis ranges in tenths, tempo in BPM.               *)
(***************************************************************************)
EXTENDS Integers, Sequences, FiniteSets, TLC

VARIABLES
    playlistProgressMap,  \* the process-wide Map: key -> progress record
    now,                  \* Date.now(), in seconds
    created,              \* number of playlists the catalog API has created
    req,                  \* per request: the handler's locals and its position
    pool,                 \* the scorer called on its own: tracks argument
    poolAnalysis,         \*   analysis argument
    poolMax,              \*   maxTracks argument
    poolOut,              \*   its result (<<>> before the call), and whether it ran
    progressRes,          \* the response of the last progress read
    genreSeedsCache,      \* getAvailableGenreSeeds: the cached genre list
    genreSeedsCacheTime,  \*   Date.now() of the last refresh
    seedCalls,            \*   per caller: position and result of its call
    seedRequests,         \*   the times the genre-seed endpoint was requested
    matchArgs,            \* matchGenresToAvailableSeeds: aiGenres, availableGenres
    matchOut,             \*   its result, and whether it ran
    llmReply,             \* analyzePlaylistPrompt: what the LLM call answers
    analysisOut,          \*   its result, and whether it ran
    estimateArgs,         \* estimateProcessingTime: sources, mode, playlistSizes
    estimateOut,          \*   its result, and whether it ran
    pageFetch             \* fetchAllPages: one call's locals, position and trace

handlerVars  == <<playlistProgressMap, now, created, req>>
scorerVars   == <<pool, poolAnalysis, poolMax, poolOut>>
genreVars    == <<genreSeedsCache, genreSeedsCacheTime, seedCalls, seedRequests>>
matchVars    == <<matchArgs, matchOut>>
promptVars   == <<llmReply, analysisOut>>
estimateVars == <<estimateArgs, estimateOut>>
pageVars     == <<pageFetch>>

\* What the generation handler of this model never writes.
otherVars == <<scorerVars, progressRes, genreVars, matchVars, promptVars, estimateVars,
               pageVars>>

vars == <<handlerVars, otherVars>>

-----------------------------------------------------------------------------
(* Bounds of the model *)

NumReqs == 2        \* generation requests in one behaviour
MaxTime == 1        \* the clock stops here
MaxTarget == 2      \* largest targetTrackCount of a request
BatchSize == 2      \* ids per bulk audio-feature call (50 in the source, scaled)
MaxPool == 3        \* largest pool handed to the scorer on its own
MaxGenreTime == 4        \* SpecGenres: the clock stops here (ticks of 12 hours)
CacheValidityTicks == 2  \* cacheValidityPeriod, 24 hours, in ticks of 12 hours
MaxSeedRequests == 3     \* SpecGenres: requests of the genre-seed endpoint
MaxAiGenres == 2         \* SpecMatch: length of the aiGenres argument
MaxReplyFields == 2      \* SpecPrompt: fields in the LLM's JSON object
MaxEstimatePlaylists == 2 \* SpecEstimate: length of sources.playlists
MaxPages == 3       \* SpecPages: pages a paginated endpoint has at most
MaxPageItems == 2   \* SpecPages: items on one page at most
MaxTracksArg == 2   \* largest maxTracks handed to the scorer on its own

Reqs == 1..NumReqs

-----------------------------------------------------------------------------
(* Small helpers *)

Min(a, b) == IF a < b THEN a ELSE b
Max(a, b) == IF a > b THEN a ELSE b
Abs(a) == IF a < 0 THEN -a ELSE a

Range(s) == {s[i] : i \in DOMAIN s}

\* Array.prototype.slice(0, n)
Slice(s, n) == IF n <= 0 THEN <<>> ELSE SubSeq(s, 1, Min(n, Len(s)))

\* Insert the pair x = <<key, item>> after every pair whose key is >= its key.
RECURSIVE InsertDesc(_, _)
InsertDesc(sorted, x) ==
    IF sorted = <<>> THEN <<x>>
    ELSE IF Head(sorted)[1] >= x[1]
         THEN <<Head(sorted)>> \o InsertDesc(Tail(sorted), x)
         ELSE <<x>> \o sorted

RECURSIVE SortPairsDesc(_)
SortPairsDesc(ps) ==
    IF ps = <<>> THEN <<>>
    ELSE InsertDesc(SortPairsDesc(SubSeq(ps, 1, Len(ps) - 1)), ps[Len(ps)])

\* Array.prototype.sort((a, b) => key(b) - key(a)): stable, descending by key;
\* keys[i] is the key of s[i].
SortDesc(s, keys) ==
    LET sorted == SortPairsDesc([i \in DOMAIN s |-> <<keys[i], s[i]>>])
    IN  [i \in DOMAIN s |-> sorted[i][2]]

\* All sequences over S of length at most n.
RECURSIVE SeqsUpTo(_, _)
SeqsUpTo(S, n) ==
    IF n = 0 THEN {<<>>}
    ELSE LET shorter == SeqsUpTo(S, n - 1)
         IN  shorter \cup {Append(s, x) : s \in {t \in shorter : Len(t) = n - 1}, x \in S}

-----------------------------------------------------------------------------
(* Processing modes *)

Modes == {"quick", "standard", "comprehensive", "complete"}

\* targetPoolSize is the source's 200, 500, 1000, 5000 divided by 100, so that
\* a pool of three tracks is cut; estimateProcessingTime multiplies it back.
PROCESSING_CONFIGS ==
    [quick         |-> [maxTracksPerPlaylist |-> 30,  maxPlaylists |-> 5,
                        useAudioFeatures |-> TRUE, fetchAllPages |-> FALSE,
                        targetPoolSize |-> 2, requestDelay |-> 50],
     standard      |-> [maxTracksPerPlaylist |-> 50,  maxPlaylists |-> 10,
                        useAudioFeatures |-> TRUE, fetchAllPages |-> FALSE,
                        targetPoolSize |-> 5, requestDelay |-> 100],
     comprehensive |-> [maxTracksPerPlaylist |-> 100, maxPlaylists |-> 20,
                        useAudioFeatures |-> TRUE, fetchAllPages |-> TRUE,
                        targetPoolSize |-> 10, requestDelay |-> 150],
     complete      |-> [maxTracksPerPlaylist |-> 0,   maxPlaylists |-> 50,
                        useAudioFeatures |-> TRUE, fetchAllPages |-> TRUE,
                        targetPoolSize |-> 50, requestDelay |-> 200]]

-----------------------------------------------------------------------------
(* Progress tracker *)

PREPARING == "preparing"

getEstimatedTimeForMode(mode) ==
    CASE mode = "quick" -> 30
      [] mode = "standard" -> 60
      [] mode = "comprehensive" -> 120
      [] mode = "complete" -> 300
      [] OTHER -> 60

\* Map.prototype.set and Map.prototype.delete on a function whose domain is
\* the set of keys present.
MapSet(m, key, val) == [k \in DOMAIN m \cup {key} |-> IF k = key THEN val ELSE m[k]]
MapDelete(m, key) == [k \in DOMAIN m \ {key} |-> m[k]]
MapHas(m, key) == key \in DOMAIN m

EmptyMap == [k \in {} |-> 0]

\* updatePlaylistProgress(playlistId, stage, progress, message, processingMode)
\* at clock value t: the map after the call.
updatePlaylistProgress(m, playlistId, stage, progress, message, processingMode, t) ==
    LET existing ==
            IF MapHas(m, playlistId) THEN m[playlistId]
            ELSE [stage |-> "initializing",
                  progress |-> 0,
                  message |-> "Starting playlist generation...",
                  remainingTimeEstimate |-> getEstimatedTimeForMode(processingMode),
                  processingMode |-> processingMode,
                  startTime |-> t]
    IN  MapSet(m, playlistId,
               [existing EXCEPT !.stage = stage,
                                !.progress = progress,
                                !.message = message,
                                !.processingMode = processingMode])

\* Mutant of MigrateProgress: the placeholder entry is copied but not deleted.
MigrateProgress_KeepsPlaceholder(m, playlistId) ==
    IF MapHas(m, PREPARING) THEN MapSet(m, playlistId, m[PREPARING]) ELSE m

\* The handler's move of the placeholder record to the real playlist id.
MigrateProgress(m, playlistId) ==
    IF MapHas(m, PREPARING)
    THEN MapDelete(MapSet(m, playlistId, m[PREPARING]), PREPARING)
    ELSE m

-----------------------------------------------------------------------------
(* Text: a JS string is a sequence of one-character strings *)

Upper == <<"A","B","C","D","E","F","G","H","I","J","K","L","M",
           "N","O","P","Q","R","S","T","U","V","W","X","Y","Z">>
Lower == <<"a","b","c","d","e","f","g","h","i","j","k","l","m",
           "n","o","p","q","r","s","t","u","v","w","x","y","z">>

LowerChar(c) ==
    IF \E i \in DOMAIN Upper : Upper[i] = c
    THEN Lower[CHOOSE i \in DOMAIN Upper : Upper[i] = c]
    ELSE c

\* String.prototype.toLowerCase
toLowerCase(str) == [i \in DOMAIN str |-> LowerChar(str[i])]

\* String.prototype.includes
includes(str, part) ==
    \E i \in 0..(Len(str) - Len(part)) : SubSeq(str, i + 1, i + Len(part)) = part

-----------------------------------------------------------------------------
(* Tracks *)

\* An optional JS value is a sequence: <<>> for undefined or null, <<v>> for v.
\* A track is [id, popularity, src, features, extractedGenres, score,
\* scoreDetails]; src names the response the object was read from.
Track(id, popularity, src) ==
    [id |-> id, popularity |-> popularity, src |-> src,
     features |-> <<>>, extractedGenres |-> <<>>, score |-> <<>>, scoreDetails |-> <<>>]

HasFeatures(track) == track.features # <<>>

Ids(tracks) == [i \in DOMAIN tracks |-> tracks[i].id]

\* Array.from(new Map(tracks.map((track) => [track.id, track])).values()):
\* a key keeps the position of its first entry and the value of its last.
RECURSIVE FirstIds(_)
FirstIds(ids) ==
    IF ids = <<>> THEN <<>>
    ELSE LET front == FirstIds(SubSeq(ids, 1, Len(ids) - 1))
             last == ids[Len(ids)]
         IN  IF last \in Range(front) THEN front ELSE Append(front, last)

LastIndexOf(tracks, id) ==
    CHOOSE i \in DOMAIN tracks :
        /\ tracks[i].id = id
        /\ \A j \in DOMAIN tracks : tracks[j].id = id => j <= i

DedupeById(tracks) ==
    LET keys == FirstIds(Ids(tracks))
    IN  [k \in DOMAIN keys |-> tracks[LastIndexOf(tracks, keys[k])]]

-----------------------------------------------------------------------------
(* Scorer: filterTracksByAIAnalysis.  Scores are in units of 1/80. *)

Midpoint2(range) == range[1] + range[2]      \* twice the ideal value

\* Mutant of UnitScore: the distance is taken from the upper bound of the
\* range instead of its midpoint.
UnitScore_FromUpperBound(value, range) == 800 - 80 * Abs(value - range[2])

\* 10 * (1 - |value - ideal|), value and range in tenths
UnitScore(value, range) == 800 - 40 * Abs(2 * value - Midpoint2(range))

\* 10 * (1 - min(1, |tempo - ideal| / 200)), tempo and range in BPM
TempoScore(tempo, range) == 800 - Min(800, 2 * Abs(2 * tempo - Midpoint2(range)))

DimensionScores(features, analysis) ==
    [energy           |-> UnitScore(features.energy, analysis.energy_range),
     tempo            |-> TempoScore(features.tempo, analysis.tempo_range),
     danceability     |-> UnitScore(features.danceability, analysis.danceability_range),
     acousticness     |-> UnitScore(features.acousticness, analysis.acousticness_range),
     valence          |-> UnitScore(features.valence, analysis.valence_range),
     instrumentalness |-> UnitScore(features.instrumentalness,
                                    analysis.instrumentalness_range)]

\* Mutant of WeightedFeatureScore: 'tempo' and 'bpm' are looked for before
\* 'energy'.
WeightedFeatureScore_TempoFirst(d, filterLogic) ==
    LET has(word) == includes(filterLogic, word)
        rest == d.danceability + d.valence + d.acousticness + d.instrumentalness
    IN  IF has(<<"t","e","m","p","o">>) \/ has(<<"b","p","m">>)
            THEN 3 * d.tempo + (3 * d.energy) \div 2 + rest
        ELSE IF has(<<"e","n","e","r","g","y">>)
            THEN 3 * d.energy + (3 * d.tempo) \div 2 + rest
        ELSE d.energy + d.tempo + rest

\* The weighted sum chosen by the first keyword found in filter_logic.
\* x3 is 3 * d, x1.5 is (3 * d) \div 2 (d is a multiple of 40).
WeightedFeatureScore(d, filterLogic) ==
    LET has(word) == includes(filterLogic, word)
        e == d.energy
        t == d.tempo
        da == d.danceability
        a == d.acousticness
        v == d.valence
        i == d.instrumentalness
        half(x) == (3 * x) \div 2
    IN  IF has(<<"e","n","e","r","g","y">>)
            THEN 3 * e + half(t) + da + v + a + i
        ELSE IF has(<<"t","e","m","p","o">>) \/ has(<<"b","p","m">>)
            THEN 3 * t + half(e) + da + v + a + i
        ELSE IF has(<<"d","a","n","c","e">>)
            THEN 3 * da + half(e) + t + v + a + i
        ELSE IF has(<<"a","c","o","u","s","t","i","c">>)
            THEN 3 * a + half(v) + e + t + da + i
        ELSE IF has(<<"i","n","s","t","r","u","m","e","n","t">>)
            THEN 3 * i + half(a) + e + t + da + v
        ELSE IF has(<<"v","a","l","e","n","c","e">>) \/ has(<<"h","a","p","p">>)
            THEN 3 * v + half(e) + t + da + a + i
        ELSE e + t + da + v + a + i

\* Number of pairs (i, j) with Test(xs[i], ys[j]), as the nested forEach counts.
CountPairs(xs, ys, Test(_, _)) ==
    Cardinality({p \in (DOMAIN xs) \X (DOMAIN ys) : Test(xs[p[1]], ys[p[2]])})

\* Mutant of GenreScore: the partial matches are counted on top of the exact
\* matches.
GenreScore_PartialAlways(track, analysis) ==
    IF track.extractedGenres = <<>> \/ Len(analysis.genres) = 0 THEN 0
    ELSE LET extracted == track.extractedGenres[1]
             promptGenres == [k \in DOMAIN analysis.genres |->
                                 toLowerCase(analysis.genres[k])]
             exact == 240 * Cardinality({k \in DOMAIN promptGenres :
                         \E g \in Range(extracted) : toLowerCase(g) = promptGenres[k]})
             partial == 120 * CountPairs(extracted, promptGenres,
                            LAMBDA tg, pg : \/ includes(toLowerCase(tg), pg)
                                            \/ includes(pg, toLowerCase(tg)))
         IN  Min(1200, exact + partial)

\* The genre score of a track (0 when the track has no extractedGenres or the
\* analysis has no genres).
GenreScore(track, analysis) ==
    IF track.extractedGenres = <<>> \/ Len(analysis.genres) = 0 THEN 0
    ELSE LET extracted == track.extractedGenres[1]
             trackGenres == {toLowerCase(g) : g \in Range(extracted)}
             promptGenres == [k \in DOMAIN analysis.genres |->
                                 toLowerCase(analysis.genres[k])]
             exact == 240 * Cardinality({k \in DOMAIN promptGenres :
                                            promptGenres[k] \in trackGenres})
             partial == 120 * CountPairs(extracted, promptGenres,
                            LAMBDA tg, pg : \/ includes(toLowerCase(tg), pg)
                                            \/ includes(pg, toLowerCase(tg)))
         IN  Min(1200, IF exact = 0 THEN partial ELSE exact)

\* Mutant of ScoreTrack: the flat bonus goes to the tracks of popularity
\* below 70 instead of above.
ScoreTrack_BonusForUnpopular(track, analysis) ==
    LET featureScore ==
            IF HasFeatures(track)
            THEN WeightedFeatureScore(DimensionScores(track.features[1], analysis),
                                      toLowerCase(analysis.filter_logic))
            ELSE 0
        boost == IF ~HasFeatures(track) /\ track.popularity < 70 THEN 1600 ELSE 0
    IN  [track EXCEPT !.score = <<featureScore + 8 * track.popularity
                                    + GenreScore(track, analysis) + boost>>]

\* The object the map callback returns for one candidate track.
ScoreTrack(track, analysis) ==
    LET d == DimensionScores(track.features[1], analysis)
        featureScore ==
            IF HasFeatures(track)
            THEN WeightedFeatureScore(d, toLowerCase(analysis.filter_logic))
            ELSE 0
        genreScore == GenreScore(track, analysis)
        popularityScore == 8 * track.popularity
        boost == IF ~HasFeatures(track) /\ track.popularity > 70 THEN 1600 ELSE 0
        details ==
            IF HasFeatures(track)
            THEN <<[energy |-> d.energy, tempo |-> d.tempo,
                    danceability |-> d.danceability, acousticness |-> d.acousticness,
                    valence |-> d.valence, instrumentalness |-> d.instrumentalness,
                    genre |-> genreScore, mood |-> 0]>>
            ELSE <<>>
    IN  [track EXCEPT !.score = <<featureScore + popularityScore + genreScore + boost>>,
                      !.scoreDetails = details]

Popularities(tracks) == [i \in DOMAIN tracks |-> tracks[i].popularity]

\* Mutant of CandidateTracks: the tracks without features are never added.
CandidateTracks_FeaturesOnly(tracks, maxTracks) == SelectSeq(tracks, HasFeatures)

\* candidateTracks: the tracks with features, extended by the most popular
\* tracks without features when there are fewer than 2 * maxTracks of them.
CandidateTracks(tracks, maxTracks) ==
    LET tracksWithAudioFeatures == SelectSeq(tracks, HasFeatures)
        without == SelectSeq(tracks, LAMBDA t : ~HasFeatures(t))
        tracksWithoutFeatures ==
            Slice(SortDesc(without, Popularities(without)), maxTracks * 3)
    IN  IF Len(tracksWithAudioFeatures) < maxTracks * 2
        THEN tracksWithAudioFeatures \o tracksWithoutFeatures
        ELSE tracksWithAudioFeatures

filterTracksByAIAnalysis(tracks, analysis, maxTracks) ==
    LET candidateTracks == CandidateTracks(tracks, maxTracks)
        scored == [i \in DOMAIN candidateTracks |->
                      ScoreTrack(candidateTracks[i], analysis)]
        scoredTracks == SortDesc(scored, [i \in DOMAIN scored |-> scored[i].score[1]])
    IN  Slice(scoredTracks, maxTracks)

-----------------------------------------------------------------------------
(* Inputs of the generation handler *)

\* The catalog: the ids of the tracks the user's sources hold, the popularity
\* and the audio features the catalog API reports for each.
TrackIds == {"t1", "t2", "t3"}

CatalogPopularity == [t1 |-> 40, t2 |-> 90, t3 |-> 40]

CatalogFeatures ==
    [t1 |-> [energy |-> 9, tempo |-> 140, danceability |-> 7, acousticness |-> 1,
             valence |-> 6, instrumentalness |-> 0],
     t2 |-> [energy |-> 3, tempo |-> 90, danceability |-> 4, acousticness |-> 8,
             valence |-> 5, instrumentalness |-> 2],
     t3 |-> [energy |-> 6, tempo |-> 120, danceability |-> 5, acousticness |-> 5,
             valence |-> 5, instrumentalness |-> 0]]

\* The user's library: the track ids each source holds, in the order the
\* catalog API lists them.
Library ==
    [liked |-> <<"t1", "t2">>,
     top   |-> <<"t2", "t3">>,
     plA   |-> <<"t3", "t1">>,
     plB   |-> <<"t2">>]

FetchedTracks(ids, src) ==
    [i \in DOMAIN ids |-> Track(ids[i], CatalogPopularity[ids[i]], src)]

\* What the fetcher of one source can return: the first k tracks of the source,
\* each object tagged with the source it was read from (k = 0 when the call
\* fails; a paginated fetch that fails midway keeps the pages before).
FetchResults(src) ==
    {FetchedTracks(SubSeq(Library[src], 1, k), src) : k \in 0..Len(Library[src])}

\* analyzePlaylistPrompt's fixed default analysis, and an analysis the LLM
\* returns for an energetic prompt.
DefaultAnalysis ==
    [genres |-> <<>>,
     moods |-> << <<"g","e","n","e","r","a","l">> >>,
     description |->
        <<"G","e","n","e","r","a","l"," ","p","l","a","y","l","i","s","t"," ","b","a","s","e","d"," ","o","n"," ","p","o","p","u","l","a","r"," ","t","r","a","c","k","s">>,
     popularity_level |-> <<"m","e","d","i","u","m">>,
     energy_range |-> <<0, 10>>, tempo_range |-> <<0, 300>>,
     danceability_range |-> <<0, 10>>, acousticness_range |-> <<0, 10>>,
     instrumentalness_range |-> <<0, 10>>, valence_range |-> <<0, 10>>,
     filter_logic |-> <<"S","o","r","t"," ","b","y"," ","p","o","p","u","l","a","r","i","t","y"," ","a","s"," ","f","a","l","l","b","a","c","k">>]

EnergyAnalysis ==
    [genres |-> << <<"R","o","c","k">> >>,
     moods |-> << <<"e","n","e","r","g","e","t","i","c">> >>,
     description |-> <<"H","i","g","h","-","e","n","e","r","g","y"," ","r","o","c","k">>,
     popularity_level |-> <<"h","i","g","h">>,
     energy_range |-> <<7, 10>>, tempo_range |-> <<120, 160>>,
     danceability_range |-> <<5, 9>>, acousticness_range |-> <<0, 3>>,
     instrumentalness_range |-> <<0, 2>>, valence_range |-> <<5, 9>>,
     filter_logic |-> <<"P","r","i","o","r","i","t","i","z","e"," ","h","i","g","h"," ","E","N","E","R","G","Y">>]

Analyses == {DefaultAnalysis, EnergyAnalysis}

SourceChoices ==
    [useLikedSongs : BOOLEAN, useTopTracks : BOOLEAN, useRecommendations : {FALSE},
     playlists : {<<>>, <<"plA">>, <<"plA", "plB">>}]

TargetCounts == 1..MaxTarget

-----------------------------------------------------------------------------
(* State of one request *)

NoResponse ==
    [status |-> 0, message |-> "", tracks |-> <<>>,
     audioFeaturesStatus |-> "", selectionMethod |-> ""]

\* The kinds of external call a request has made so far: "llm", "create",
\* "fetches" (a source fetch), "features" (an audio-feature lookup), "append",
\* "persist".
NoEffects == {}

IdleReq ==
    [pc |-> "idle",
     sources |-> [useLikedSongs |-> FALSE, useTopTracks |-> FALSE,
                  useRecommendations |-> FALSE, playlists |-> <<>>],
     processingMode |-> "standard",
     targetTrackCount |-> 0,
     promptAnalysis |-> DefaultAnalysis,
     createResponse |-> "",         \* how the create call settled ("" before)
     playlistId |-> "",
     migrated |-> <<>>,             \* <<the map right after the migration step>>
     allTracks |-> <<>>,            \* collectTracks: allTracks
     playlistTracks |-> <<>>,       \* fetchSelectedPlaylistTracks: allTracks
     plIndex |-> 0,                 \* fetchSelectedPlaylistTracks: i
     collectedTracks |-> <<>>,
     tracksWithFeatures |-> <<>>,
     batchStart |-> 0,              \* the enrichment loop's i
     batchWithFeatures |-> <<>>,    \* the one-by-one fallback's list
     selectedTracks |-> <<>>,
     addTracksResponse |-> "",      \* how the track-append call settled ("" before)
     response |-> NoResponse,
     effects |-> NoEffects,
     calls |-> <<>>]                \* every updatePlaylistProgress call, in order

InFlight(q) == q.pc \notin {"idle", "done"}

-----------------------------------------------------------------------------
(* The synchronous segments of POST /generate-playlist.  A context c is the  *)
(* pair [q |-> the request's locals, m |-> the progress map]; each operator  *)
(* runs the code up to the next await and leaves q.pc at that await.         *)

\* One updatePlaylistProgress call of the handler, at clock value t.
Report(c, key, stage, progress, message, t) ==
    [q |-> [c.q EXCEPT !.calls = Append(@, [key |-> key, stage |-> stage,
                                              progress |-> progress])],
     m |-> updatePlaylistProgress(c.m, key, stage, progress, message,
                                  c.q.processingMode, t)]

\* collectTracks' updateProgress: the handler's callback stores it under the
\* playlist id.
CollectorReport(c, stage, progress, message, t) ==
    Report(c, c.q.playlistId, stage, progress, message, t)

Respond(c, status, message) ==
    [c EXCEPT !.q.pc = "done",
              !.q.response = [NoResponse EXCEPT !.status = status,
                                                !.message = message]]

\* The catch clause of the handler.
Respond500(c) == Respond(c, 500, "Failed to generate AI playlist")

\* Step 8 up to the await of Playlist.create.
StartPersist(c, t) ==
    LET c1 == Report(c, c.q.playlistId, "finalizing", 95, "Finalizing playlist...", t)
    IN  [c1 EXCEPT !.q.pc = "persist", !.q.effects = @ \cup {"persist"}]

\* Mutant of SelectTracks: the track-append call is made for an empty
\* selection too.
SelectTracks_AlwaysAppends(c, t) ==
    LET c1 == Report(c, c.q.playlistId, "selecting", 85,
                     "Selecting the best tracks for your playlist...", t)
        q == c1.q
        byFeatures == \E i \in DOMAIN q.tracksWithFeatures :
                          HasFeatures(q.tracksWithFeatures[i])
        sortedPool == SortDesc(q.collectedTracks, Popularities(q.collectedTracks))
        selected == IF byFeatures
                    THEN filterTracksByAIAnalysis(q.tracksWithFeatures,
                                                  q.promptAnalysis, q.targetTrackCount)
                    ELSE Slice(sortedPool, q.targetTrackCount)
        c2 == [c1 EXCEPT !.q.selectedTracks = selected,
                         !.q.collectedTracks = IF byFeatures THEN @ ELSE sortedPool]
        c3 == Report(c2, q.playlistId, "finalizing", 90,
                     "Adding tracks to your playlist...", t)
    IN  [c3 EXCEPT !.q.pc = "append", !.q.effects = @ \cup {"append"}]

\* Steps 6 and 7 up to the await of the track-append call.
SelectTracks(c, t) ==
    LET c1 == Report(c, c.q.playlistId, "selecting", 85,
                     "Selecting the best tracks for your playlist...", t)
        q == c1.q
        byFeatures == \E i \in DOMAIN q.tracksWithFeatures :
                          HasFeatures(q.tracksWithFeatures[i])
        sortedPool == SortDesc(q.collectedTracks, Popularities(q.collectedTracks))
        selected == IF byFeatures
                    THEN filterTracksByAIAnalysis(q.tracksWithFeatures,
                                                  q.promptAnalysis, q.targetTrackCount)
                    ELSE Slice(sortedPool, q.targetTrackCount)
        c2 == [c1 EXCEPT !.q.selectedTracks = selected,
                         !.q.collectedTracks = IF byFeatures THEN @ ELSE sortedPool]
        c3 == Report(c2, q.playlistId, "finalizing", 90,
                     "Adding tracks to your playlist...", t)
    IN  IF Len(selected) > 0
        THEN [c3 EXCEPT !.q.pc = "append", !.q.effects = @ \cup {"append"}]
        ELSE StartPersist(c3, t)

\* The head of the enrichment loop for the batch starting at index i (0-based).
NextBatch(c, i, t) ==
    IF i < Len(c.q.collectedTracks)
    THEN [c EXCEPT !.q.pc = "bulk", !.q.batchStart = i, !.q.batchWithFeatures = <<>>,
                   !.q.effects = @ \cup {"features"}]
    ELSE SelectTracks(c, t)

\* trackBatch = collectedTracks.slice(i, i + batchSize)
TrackBatch(q) ==
    SubSeq(q.collectedTracks, q.batchStart + 1,
           Min(q.batchStart + BatchSize, Len(q.collectedTracks)))

\* The catch clause of the enrichment: every collected track, features null.
EnrichmentFailed(c, t) ==
    SelectTracks([c EXCEPT !.q.tracksWithFeatures =
                     [i \in DOMAIN c.q.collectedTracks |->
                         [c.q.collectedTracks[i] EXCEPT !.features = <<>>]]], t)

\* Mutant of FinishCollect: the pool is never cut to targetPoolSize.
FinishCollect_NoCut(c, t) ==
    LET c1 == CollectorReport(c, "processing", 85, "Removing duplicate tracks...", t)
        uniqueTracks == DedupeById(c.q.allTracks)
        c3 == CollectorReport(c1, "complete", 100, "Track collection complete", t)
    IN  [c3 EXCEPT !.q.pc = "collected", !.q.collectedTracks = uniqueTracks]

\* collectTracks, steps 4 and 5 and its return.
FinishCollect(c, t) ==
    LET config == PROCESSING_CONFIGS[c.q.processingMode]
        c1 == CollectorReport(c, "processing", 85, "Removing duplicate tracks...", t)
        uniqueTracks == DedupeById(c.q.allTracks)
        cut == config.targetPoolSize > 0 /\ Len(uniqueTracks) > config.targetPoolSize
        c2 == IF cut
              THEN CollectorReport(c1, "processing", 90,
                                   "Sampling tracks to optimal size...", t)
              ELSE c1
        resultTracks == IF cut THEN Slice(uniqueTracks, config.targetPoolSize)
                        ELSE uniqueTracks
        c3 == CollectorReport(c2, "complete", 100, "Track collection complete", t)
    IN  [c3 EXCEPT !.q.pc = "collected", !.q.collectedTracks = resultTracks]

\* fetchSelectedPlaylistTracks: limitedPlaylistIds
LimitedPlaylistIds(q) ==
    Slice(q.sources.playlists, PROCESSING_CONFIGS[q.processingMode].maxPlaylists)

\* collectTracks, step 3 up to the first playlist fetch.
StartPlaylists(c, t) ==
    IF Len(c.q.sources.playlists) > 0
    THEN LET c1 == CollectorReport(c, "collecting", 40,
                                   "Fetching tracks from your playlists...", t)
         IN  IF Len(LimitedPlaylistIds(c.q)) > 0
             THEN [c1 EXCEPT !.q.pc = "playlist", !.q.plIndex = 0,
                             !.q.playlistTracks = <<>>,
                             !.q.effects = @ \cup {"fetches"}]
             ELSE FinishCollect(c1, t)
    ELSE FinishCollect(c, t)

\* collectTracks, step 2 up to the top-tracks fetch.
StartTopTracks(c, t) ==
    IF c.q.sources.useTopTracks
    THEN [CollectorReport(c, "collecting", 30, "Fetching your top tracks...", t)
            EXCEPT !.q.pc = "top", !.q.effects = @ \cup {"fetches"}]
    ELSE StartPlaylists(c, t)

\* collectTracks, step 1 up to the liked-songs fetch.
StartLikedSongs(c, t) ==
    IF c.q.sources.useLikedSongs
    THEN [CollectorReport(c, "collecting", 10, "Fetching your liked songs...", t)
            EXCEPT !.q.pc = "liked", !.q.effects = @ \cup {"fetches"}]
    ELSE StartTopTracks(c, t)

\* Step 1 of the handler up to the await of analyzePlaylistPrompt.
StartAnalysis(c, t) ==
    [Report(c, PREPARING, "analyzing", 5, "Analyzing prompt with AI...", t)
        EXCEPT !.q.pc = "analyze", !.q.effects = @ \cup {"llm"}]

-----------------------------------------------------------------------------
(* Actions of POST /generate-playlist *)

Ctx(r) == [q |-> req[r], m |-> playlistProgressMap]

Commit(r, c) ==
    /\ req' = [req EXCEPT ![r] = c.q]
    /\ playlistProgressMap' = c.m

\* Mutant of Begin: the step 1 update is stored before the prompt is checked.
Begin_ReportsBeforeValidation(r, alone) ==
    /\ req[r].pc = "idle"
    /\ alone => \A o \in Reqs : ~InFlight(req[o])
    /\ \/ Commit(r, Respond(Report(Ctx(r), PREPARING, "analyzing", 5,
                                   "Analyzing prompt with AI...", now),
                            400, "Prompt is required"))
       \/ Commit(r, Respond(Ctx(r), 401, "Authentication required"))
       \/ \E sources \in SourceChoices, mode \in Modes, target \in TargetCounts :
            LET c == [Ctx(r) EXCEPT !.q.sources = sources,
                                    !.q.processingMode = mode,
                                    !.q.targetTrackCount = target]
            IN  IF Len(sources.playlists) > 0
                THEN Commit(r, [c EXCEPT !.q.pc = "meta"])
                ELSE Commit(r, StartAnalysis(c, now))
    /\ UNCHANGED <<now, created, otherVars>>

\* The request arrives: destructuring, validation, and either the await of the
\* playlist metadata fetch or step 1.  alone: no other request is in flight.
Begin(r, alone) ==
    /\ req[r].pc = "idle"
    /\ alone => \A o \in Reqs : ~InFlight(req[o])
    /\ \/ Commit(r, Respond(Ctx(r), 400, "Prompt is required"))
       \/ Commit(r, Respond(Ctx(r), 401, "Authentication required"))
       \/ \E sources \in SourceChoices, mode \in Modes, target \in TargetCounts :
            LET c == [Ctx(r) EXCEPT !.q.sources = sources,
                                    !.q.processingMode = mode,
                                    !.q.targetTrackCount = target]
            IN  IF Len(sources.playlists) > 0
                THEN Commit(r, [c EXCEPT !.q.pc = "meta"])
                ELSE Commit(r, StartAnalysis(c, now))
    /\ UNCHANGED <<now, created, otherVars>>

\* The playlist metadata fetch settles (any outcome); estimate; step 1.
MetaDone(r) ==
    /\ req[r].pc = "meta"
    /\ Commit(r, StartAnalysis(Ctx(r), now))
    /\ UNCHANGED <<now, created, otherVars>>

\* analyzePlaylistPrompt resolves; step 2 up to the await of the genre seeds.
AnalyzeDone(r) ==
    /\ req[r].pc = "analyze"
    /\ \E analysis \in Analyses :
         Commit(r, [Report([Ctx(r) EXCEPT !.q.promptAnalysis = analysis],
                           PREPARING, "analyzing", 10, "Matching genres...", now)
                      EXCEPT !.q.pc = "genres"])
    /\ UNCHANGED <<now, created, otherVars>>

\* The genre seeds are matched; step 3 up to the await of the create call.
GenresDone(r) ==
    /\ req[r].pc = "genres"
    /\ Commit(r, [Report(Ctx(r), PREPARING, "creating", 15, "Creating playlist...", now)
                    EXCEPT !.q.pc = "create", !.q.effects = @ \cup {"create"}])
    /\ UNCHANGED <<now, created, otherVars>>

CreateOutcomes == {"ok", "ok_badbody", "notok", "notok_badbody", "reject"}

\* Mutant of CreateDone: the non-2xx branch does not return, the handler goes
\* on with the body it parsed.
CreateDone_NoReturn(r) ==
    /\ req[r].pc = "create"
    /\ \E outcome \in CreateOutcomes :
         LET id == "sp" \o ToString(created + 1)
             c0 == [Ctx(r) EXCEPT !.q.createResponse = outcome]
             c1 == [c0 EXCEPT !.q.playlistId = id,
                              !.m = MigrateProgress(c0.m, id),
                              !.q.migrated = <<MigrateProgress(c0.m, id)>>]
             c2 == Report(c1, id, "collecting", 20,
                          "Collecting tracks from selected sources...", now)
         IN  /\ created' = IF outcome \in {"ok", "ok_badbody"} THEN created + 1
                           ELSE created
             /\ IF outcome \in {"ok", "notok"}
                THEN Commit(r, StartLikedSongs(c2, now))
                ELSE Commit(r, Respond500(c0))
    /\ UNCHANGED <<now, otherVars>>

\* The create call settles: error response, or migration, step 4 and the
\* start of collectTracks.
CreateDone(r) ==
    /\ req[r].pc = "create"
    /\ \E outcome \in CreateOutcomes :
         LET id == "sp" \o ToString(created + 1)
             c0 == [Ctx(r) EXCEPT !.q.createResponse = outcome]
             c1 == [c0 EXCEPT !.q.playlistId = id,
                              !.m = MigrateProgress(c0.m, id),
                              !.q.migrated = <<MigrateProgress(c0.m, id)>>]
             c2 == Report(c1, id, "collecting", 20,
                          "Collecting tracks from selected sources...", now)
         IN  /\ created' = IF outcome \in {"ok", "ok_badbody"} THEN created + 1
                           ELSE created
             /\ CASE outcome = "ok" -> Commit(r, StartLikedSongs(c2, now))
                  [] outcome = "notok" ->
                        Commit(r, Respond(c0, 403, "Failed to create playlist"))
                  [] OTHER -> Commit(r, Respond500(c0))
    /\ UNCHANGED <<now, otherVars>>

\* Mutant of LikedDone: fetchLikedSongs lets a failed fetch (a result shorter
\* than the source) reach the handler's catch.
LikedDone_Throws(r) ==
    /\ req[r].pc = "liked"
    /\ \E likedSongs \in FetchResults("liked") :
         IF Len(likedSongs) < Len(Library["liked"])
         THEN Commit(r, Respond500(Ctx(r)))
         ELSE Commit(r, StartTopTracks([Ctx(r) EXCEPT !.q.allTracks = @ \o likedSongs],
                                       now))
    /\ UNCHANGED <<now, created, otherVars>>

\* fetchLikedSongs resolves; collectTracks goes on to the top tracks.
LikedDone(r) ==
    /\ req[r].pc = "liked"
    /\ \E likedSongs \in FetchResults("liked") :
         Commit(r, StartTopTracks([Ctx(r) EXCEPT !.q.allTracks = @ \o likedSongs], now))
    /\ UNCHANGED <<now, created, otherVars>>

TopDone(r) ==
    /\ req[r].pc = "top"
    /\ \E topTracks \in FetchResults("top") :
         Commit(r, StartPlaylists([Ctx(r) EXCEPT !.q.allTracks = @ \o topTracks], now))
    /\ UNCHANGED <<now, created, otherVars>>

\* Math.round(((i + 1) / n) * 100) for 0 <= i < n
PlaylistPercent(i, n) == (200 * (i + 1) + n) \div (2 * n)

\* Mutant of PlaylistProgress: the playlist percentage is added unscaled.
PlaylistProgress_Unscaled(progress) == 40 + progress

\* 40 + Math.floor(progress * 0.4)
PlaylistProgress(progress) == 40 + (progress * 4) \div 10

\* One fetchPlaylistTracks call of fetchSelectedPlaylistTracks returns.
PlaylistDone(r) ==
    /\ req[r].pc = "playlist"
    /\ LET q == req[r]
           ids == LimitedPlaylistIds(q)
           i == q.plIndex
           progress == PlaylistPercent(i, Len(ids))
       IN  \E tracks \in FetchResults(ids[i + 1]) :
             LET c1 == [Ctx(r) EXCEPT !.q.playlistTracks = @ \o tracks]
                 c2 == CollectorReport(c1, "collecting", PlaylistProgress(progress),
                          "Fetching playlist tracks: " \o ToString(progress)
                              \o "% complete", now)
             IN  IF i + 1 < Len(ids)
                 THEN Commit(r, [c2 EXCEPT !.q.plIndex = i + 1,
                                           !.q.effects = @ \cup {"fetches"}])
                 ELSE Commit(r, FinishCollect(
                        [c2 EXCEPT !.q.allTracks =
                            @ \o DedupeById(c2.q.playlistTracks)], now))
    /\ UNCHANGED <<now, created, otherVars>>

\* collectTracks has resolved: step 5 up to the first bulk feature call.
EnrichStart(r) ==
    /\ req[r].pc = "collected"
    /\ LET c1 == Report(Ctx(r), req[r].playlistId, "processing", 75,
                        "Analyzing audio features...", now)
       IN  Commit(r, NextBatch([c1 EXCEPT !.q.tracksWithFeatures = <<>>,
                                          !.q.allTracks = <<>>,
                                          !.q.playlistTracks = <<>>], 0, now))
    /\ UNCHANGED <<now, created, otherVars>>

WithFeatures(track, found) ==
    [track EXCEPT !.features = IF found THEN <<CatalogFeatures[track.id]>> ELSE <<>>]

\* The bulk audio-feature call of one batch settles.
BulkDone(r) ==
    /\ req[r].pc = "bulk"
    /\ LET c == Ctx(r)
           trackBatch == TrackBatch(c.q)
           next == c.q.batchStart + BatchSize
       IN  \/ \* the call is rejected, or its body is not JSON
              Commit(r, EnrichmentFailed(c, now))
           \/ \* 2xx without an audio_features array: continue
              Commit(r, NextBatch(c, next, now))
           \/ \* 2xx: the features of the ids in found, null for the others
              \E found \in SUBSET Range(Ids(trackBatch)) :
                Commit(r, NextBatch(
                    [c EXCEPT !.q.tracksWithFeatures = @ \o
                        [i \in DOMAIN trackBatch |->
                            WithFeatures(trackBatch[i], trackBatch[i].id \in found)]],
                    next, now))
           \/ \* non-2xx: one-by-one fallback, up to its first call
              Commit(r, [c EXCEPT !.q.pc = "single", !.q.batchWithFeatures = <<>>,
                                  !.q.effects = @ \cup {"features"}])
    /\ UNCHANGED <<now, created, otherVars>>

\* One call of the one-by-one fallback settles (2xx, non-2xx or thrown).
SingleDone(r) ==
    /\ req[r].pc = "single"
    /\ LET c == Ctx(r)
           trackBatch == TrackBatch(c.q)
           track == trackBatch[Len(c.q.batchWithFeatures) + 1]
       IN  \E outcome \in {"ok", "notok", "throw"} :
             LET batch == Append(c.q.batchWithFeatures,
                                 WithFeatures(track, outcome = "ok"))
             IN  IF Len(batch) < Len(trackBatch)
                 THEN Commit(r, [c EXCEPT !.q.batchWithFeatures = batch,
                                          !.q.effects = @ \cup {"features"}])
                 ELSE Commit(r, NextBatch(
                        [c EXCEPT !.q.tracksWithFeatures = @ \o batch,
                                  !.q.batchWithFeatures = <<>>],
                        c.q.batchStart + BatchSize, now))
    /\ UNCHANGED <<now, created, otherVars>>

AppendOutcomes == {"ok", "notok", "notok_badbody", "reject"}

\* The track-append call settles; step 8 up to the await of Playlist.create.
AppendDone(r) ==
    /\ req[r].pc = "append"
    /\ \E outcome \in AppendOutcomes :
         LET c == [Ctx(r) EXCEPT !.q.addTracksResponse = outcome]
         IN  IF outcome \in {"ok", "notok"}
             THEN Commit(r, StartPersist(c, now))
             ELSE Commit(r, Respond500(c))
    /\ UNCHANGED <<now, created, otherVars>>

ResponseTrack(track) ==
    [id |-> track.id, src |-> track.src, popularity |-> track.popularity,
     score |-> track.score,
     selectionReason |-> IF HasFeatures(track) THEN "audio features" ELSE "popularity"]

\* Playlist.create settles (saved or failed); step 9 and the 201 response.
PersistDone(r) ==
    /\ req[r].pc = "persist"
    /\ LET q == req[r]
           c1 == Report(Ctx(r), q.playlistId, "complete", 100,
                        "Playlist created successfully!", now)
           some == \E i \in DOMAIN q.tracksWithFeatures :
                       HasFeatures(q.tracksWithFeatures[i])
       IN  Commit(r, [c1 EXCEPT
             !.q.pc = "done",
             !.q.response =
                [status |-> 201,
                 message |-> "AI playlist created successfully",
                 tracks |-> [i \in DOMAIN q.selectedTracks |->
                                ResponseTrack(q.selectedTracks[i])],
                 audioFeaturesStatus |-> IF some THEN "available" ELSE "unavailable",
                 selectionMethod |-> IF some THEN "audio_features" ELSE "popularity"]])
    /\ UNCHANGED <<now, created, otherVars>>

\* Wall-clock time passes.
Tick ==
    /\ now < MaxTime
    /\ now' = now + 1
    /\ UNCHANGED <<playlistProgressMap, created, req, otherVars>>

-----------------------------------------------------------------------------
(* Spec: generation requests served one at a time *)

\* The parts of the state a specification does not exercise stay at these
\* values.
HandlerIdle ==
    /\ playlistProgressMap = EmptyMap
    /\ now = 0
    /\ created = 0
    /\ req = [r \in Reqs |-> IdleReq]

ScorerIdle ==
    /\ pool = <<>>
    /\ poolAnalysis = DefaultAnalysis
    /\ poolMax = 0
    /\ poolOut = [ran |-> FALSE, tracks |-> <<>>]

ProgressIdle == progressRes = [key |-> "", status |-> 0, progress |-> <<>>]

GenresIdle ==
    /\ genreSeedsCache = <<>>
    /\ genreSeedsCacheTime = 0
    /\ seedCalls = <<>>
    /\ seedRequests = <<>>

MatchIdle ==
    /\ matchArgs = [aiGenres |-> <<>>, availableGenres |-> <<>>]
    /\ matchOut = [ran |-> FALSE, genres |-> <<>>]

PromptIdle ==
    /\ llmReply = [kind |-> "throw", fields |-> <<>>]
    /\ analysisOut = [ran |-> FALSE, analysis |-> DefaultAnalysis]

PagesIdle ==
    pageFetch = [pc |-> "idle", delay |-> 0, results |-> <<>>, nextUrl |-> 0,
                 events |-> <<>>, pages |-> <<>>]

EstimateIdle ==
    /\ estimateArgs = [sources |-> [useLikedSongs |-> FALSE, useTopTracks |-> FALSE,
                                    useRecommendations |-> FALSE, playlists |-> <<>>],
                       processingMode |-> "standard", playlistSizes |-> <<>>]
    /\ estimateOut = [ran |-> FALSE, estimatedSeconds |-> 0]

Init ==
    /\ HandlerIdle
    /\ PagesIdle
    /\ ScorerIdle
    /\ ProgressIdle
    /\ GenresIdle
    /\ MatchIdle
    /\ PromptIdle
    /\ EstimateIdle

Handler(r, alone) ==
    \/ Begin(r, alone)
    \/ MetaDone(r)
    \/ AnalyzeDone(r)
    \/ GenresDone(r)
    \/ CreateDone(r)
    \/ LikedDone(r)
    \/ TopDone(r)
    \/ PlaylistDone(r)
    \/ EnrichStart(r)
    \/ BulkDone(r)
    \/ SingleDone(r)
    \/ AppendDone(r)
    \/ PersistDone(r)

Next ==
    \/ Handler(1, TRUE)
    \/ Tick

Spec == Init /\ [][Next]_vars

-----------------------------------------------------------------------------
(* SpecScorer: filterTracksByAIAnalysis called on its own *)

FeaturesA ==
    [energy |-> 9, tempo |-> 140, danceability |-> 7, acousticness |-> 1,
     valence |-> 6, instrumentalness |-> 0]

\* The shapes of one pool track: popularity, features or none, derived genres
\* or none.
TrackKinds ==
    [popularity : {40, 60, 90},
     features : {<<>>, <<FeaturesA>>},
     extractedGenres : {<<>>, << << <<"r","o","c","k">> >> >>}]

PoolTrack(i, kind) ==
    [Track("t" \o ToString(i), kind.popularity, "pool")
        EXCEPT !.features = kind.features, !.extractedGenres = kind.extractedGenres]

\* Pools of at most MaxPool tracks with pairwise distinct ids.
Pools ==
    {[i \in DOMAIN kinds |-> PoolTrack(i, kinds[i])] : kinds \in SeqsUpTo(TrackKinds, MaxPool)}

InitScorer ==
    /\ HandlerIdle
    /\ PagesIdle
    /\ ProgressIdle
    /\ GenresIdle
    /\ MatchIdle
    /\ PromptIdle
    /\ EstimateIdle
    /\ pool \in Pools
    /\ poolAnalysis \in Analyses
    /\ poolMax \in 0..MaxTracksArg
    /\ poolOut = [ran |-> FALSE, tracks |-> <<>>]

ApplyFilter ==
    /\ ~poolOut.ran
    /\ poolOut' = [ran |-> TRUE,
                   tracks |-> filterTracksByAIAnalysis(pool, poolAnalysis, poolMax)]
    /\ UNCHANGED <<handlerVars, pageVars, pool, poolAnalysis, poolMax, progressRes, genreVars,
                 matchVars, promptVars, estimateVars>>

NextScorer == ApplyFilter

SpecScorer == InitScorer /\ [][NextScorer]_vars

-----------------------------------------------------------------------------
(* SpecProgress: progress reads against a tracker that generation requests  *)
(* write, and requests arriving at the generation handler                   *)

\* The record a read of an unknown key answers with.
DefaultProgress ==
    [stage |-> "initializing", progress |-> 5,
     message |-> "Initializing playlist generation...",
     remainingTimeEstimate |-> 60]

\* Mutant of getProgress: an unknown key is answered with 404 and no record.
getProgress_UnknownIs404(m, playlistId, t) ==
    IF playlistId = ""
    THEN [key |-> playlistId, status |-> 400, progress |-> <<>>]
    ELSE IF ~MapHas(m, playlistId)
    THEN [key |-> playlistId, status |-> 404, progress |-> <<>>]
    ELSE [key |-> playlistId, status |-> 200, progress |-> <<m[playlistId]>>]

\* Mutant of getProgress: the estimate is held at 80% of the total whatever
\* the record's progress.
getProgress_FloorAlways(m, playlistId, t) ==
    IF playlistId = ""
    THEN [key |-> playlistId, status |-> 400, progress |-> <<>>]
    ELSE IF ~MapHas(m, playlistId)
    THEN [key |-> playlistId, status |-> 200, progress |-> <<DefaultProgress>>]
    ELSE LET progress == m[playlistId]
             totalEstimate == getEstimatedTimeForMode(progress.processingMode)
             remaining == Max(0, totalEstimate - (t - progress.startTime))
         IN  [key |-> playlistId, status |-> 200,
              progress |-> <<[progress EXCEPT !.remainingTimeEstimate =
                                Max(remaining, (totalEstimate * 8) \div 10)]>>]

\* GET /api/ai/generate-playlist/progress for the query parameter playlistId
\* ("" when it is missing), at clock value t (seconds).
getProgress(m, playlistId, t) ==
    IF playlistId = ""
    THEN [key |-> playlistId, status |-> 400, progress |-> <<>>]
    ELSE IF ~MapHas(m, playlistId)
    THEN [key |-> playlistId, status |-> 200, progress |-> <<DefaultProgress>>]
    ELSE LET progress == m[playlistId]
             elapsedSeconds == t - progress.startTime
             totalEstimate == getEstimatedTimeForMode(progress.processingMode)
             remaining == Max(0, totalEstimate - elapsedSeconds)
             remainingEstimate == IF progress.progress < 20
                                  THEN Max(remaining, (totalEstimate * 8) \div 10)
                                  ELSE remaining
         IN  [key |-> playlistId, status |-> 200,
              progress |-> <<[progress EXCEPT
                                !.remainingTimeEstimate = remainingEstimate]>>]

\* The keys progress is read for: none, the placeholder, a playlist being
\* generated, a playlist the tracker never saw.
ReadKeys == {"", PREPARING, "sp1", "sp2"}

\* Updates a generation request makes: step 1 and step 9 of the handler.
ProgressSteps ==
    {[key |-> PREPARING, stage |-> "analyzing", progress |-> 5,
      message |-> "Analyzing prompt with AI..."],
     [key |-> "sp1", stage |-> "complete", progress |-> 100,
      message |-> "Playlist created successfully!"]}

GetProgress ==
    /\ \E playlistId \in ReadKeys :
         progressRes' = getProgress(playlistProgressMap, playlistId, now)
    /\ UNCHANGED <<handlerVars, pageVars, scorerVars, genreVars, matchVars, promptVars,
                   estimateVars>>

TrackerUpdate ==
    /\ \E step \in ProgressSteps :
         playlistProgressMap' =
            updatePlaylistProgress(playlistProgressMap, step.key, step.stage,
                                   step.progress, step.message, "quick", now)
    /\ UNCHANGED <<now, created, req, otherVars>>

TrackerMigrate ==
    /\ MapHas(playlistProgressMap, PREPARING)
    /\ playlistProgressMap' = MigrateProgress(playlistProgressMap, "sp1")
    /\ UNCHANGED <<now, created, req, otherVars>>

InitProgress ==
    /\ HandlerIdle
    /\ PagesIdle
    /\ ScorerIdle
    /\ ProgressIdle
    /\ GenresIdle
    /\ MatchIdle
    /\ PromptIdle
    /\ EstimateIdle

NextProgress ==
    \/ GetProgress
    \/ TrackerUpdate
    \/ TrackerMigrate
    \/ \E r \in Reqs : Begin(r, TRUE)
    \/ Tick

SpecProgress == InitProgress /\ [][NextProgress]_vars

-----------------------------------------------------------------------------
(* SpecGenres: getAvailableGenreSeeds called by interleaved requests.  The  *)
(* clock of this specification counts ticks of 12 hours.                    *)

\* What the genre-seed endpoint can answer with on a 2xx response: a body
\* without genres (data.genres || []), or the catalog's genre list.
SeedLists == {<<>>, <<"rock", "pop">>}

IdleSeedCall == [pc |-> "idle", returned |-> FALSE, result |-> <<>>]

\* getAvailableGenreSeeds up to its return from the cache or to the await of
\* the fetch.
SeedsCall(c) ==
    /\ seedCalls[c].pc = "idle"
    /\ IF Len(genreSeedsCache) > 0
          /\ now - genreSeedsCacheTime < CacheValidityTicks
       THEN /\ seedCalls' = [seedCalls EXCEPT ![c] =
                                [pc |-> "idle", returned |-> TRUE,
                                 result |-> genreSeedsCache]]
            /\ UNCHANGED seedRequests
       ELSE /\ Len(seedRequests) < MaxSeedRequests
            /\ seedCalls' = [seedCalls EXCEPT ![c].pc = "fetch"]
            /\ seedRequests' = Append(seedRequests, now)
    /\ UNCHANGED <<handlerVars, pageVars, scorerVars, progressRes, genreSeedsCache,
                   genreSeedsCacheTime, matchVars, promptVars, estimateVars>>

\* The fetch settles: 2xx with a genre list, or non-2xx / rejected / bad body.
SeedsFetched(c) ==
    /\ seedCalls[c].pc = "fetch"
    /\ \/ \E genres \in SeedLists :
            /\ genreSeedsCache' = genres
            /\ genreSeedsCacheTime' = now
            /\ seedCalls' = [seedCalls EXCEPT ![c] =
                                [pc |-> "idle", returned |-> TRUE, result |-> genres]]
       \/ /\ seedCalls' = [seedCalls EXCEPT ![c] =
                                [pc |-> "idle", returned |-> TRUE, result |-> <<>>]]
          /\ UNCHANGED <<genreSeedsCache, genreSeedsCacheTime>>
    /\ UNCHANGED <<handlerVars, pageVars, scorerVars, progressRes, seedRequests,
                   matchVars, promptVars, estimateVars>>

TickGenres ==
    /\ now < MaxGenreTime
    /\ now' = now + 1
    /\ UNCHANGED <<playlistProgressMap, created, req, otherVars>>

InitGenres ==
    /\ HandlerIdle
    /\ PagesIdle
    /\ ScorerIdle
    /\ ProgressIdle
    /\ MatchIdle
    /\ PromptIdle
    /\ EstimateIdle
    /\ genreSeedsCache = <<>>
    /\ genreSeedsCacheTime = 0
    /\ seedCalls = [c \in Reqs |-> IdleSeedCall]
    /\ seedRequests = <<>>

NextGenres ==
    \/ \E c \in Reqs : SeedsCall(c)
    \/ \E c \in Reqs : SeedsFetched(c)
    \/ TickGenres

SpecGenres == InitGenres /\ [][NextGenres]_vars

-----------------------------------------------------------------------------
(* SpecMatch: matchGenresToAvailableSeeds called on its own *)

\* Array.prototype.indexOf, 1-based, for a value that occurs in s.
IndexOf(s, x) == CHOOSE i \in DOMAIN s : s[i] = x /\ \A j \in 1..(i - 1) : s[j] # x

\* [...new Set(s)]: the values of s, each at its first position.
UniqueInOrder(s) == FirstIds(s)

\* The substring test of the second pass, either direction.
PartialMatch(aiGenre, g) ==
    \/ includes(toLowerCase(g), toLowerCase(aiGenre))
    \/ includes(toLowerCase(aiGenre), toLowerCase(g))

\* partialMatches: for each AI genre in turn, the available genres matching it.
RECURSIVE PartialMatches(_, _)
PartialMatches(aiGenres, availableGenres) ==
    IF aiGenres = <<>> THEN <<>>
    ELSE SelectSeq(availableGenres, LAMBDA g : PartialMatch(Head(aiGenres), g))
            \o PartialMatches(Tail(aiGenres), availableGenres)

\* Mutant of matchGenresToAvailableSeeds: the partial matches are not cut.
matchGenresToAvailableSeeds_NoCut(aiGenres, availableGenres) ==
    LET lowerCaseAvailableGenres ==
            [i \in DOMAIN availableGenres |-> toLowerCase(availableGenres[i])]
        lowerAi == [i \in DOMAIN aiGenres |-> toLowerCase(aiGenres[i])]
        exactMatches ==
            SelectSeq(lowerAi, LAMBDA g : g \in Range(lowerCaseAvailableGenres))
    IN  IF aiGenres = <<>> THEN <<>>
        ELSE IF Len(exactMatches) > 0
        THEN [i \in DOMAIN exactMatches |->
                availableGenres[IndexOf(lowerCaseAvailableGenres, exactMatches[i])]]
        ELSE UniqueInOrder(PartialMatches(aiGenres, availableGenres))

matchGenresToAvailableSeeds(aiGenres, availableGenres) ==
    LET lowerCaseAvailableGenres ==
            [i \in DOMAIN availableGenres |-> toLowerCase(availableGenres[i])]
        lowerAi == [i \in DOMAIN aiGenres |-> toLowerCase(aiGenres[i])]
        exactMatches ==
            SelectSeq(lowerAi, LAMBDA g : g \in Range(lowerCaseAvailableGenres))
    IN  IF aiGenres = <<>> THEN <<>>
        ELSE IF Len(exactMatches) > 0
        THEN [i \in DOMAIN exactMatches |->
                availableGenres[IndexOf(lowerCaseAvailableGenres, exactMatches[i])]]
        ELSE Slice(UniqueInOrder(PartialMatches(aiGenres, availableGenres)), 5)

\* The genres the LLM names.
AiWords ==
    {<<"r","o","c","k">>,
     <<"P","o","p">>,
     <<"j","a","z","z">>,
     <<"c","l","a","s","s","i","c"," ","r","o","c","k">>,
     <<"K","-","P","o","p">>}

\* The available-seed lists: none (the seed fetch failed), a short list in
\* mixed casing with a repeated seed, and a list with six seeds around "rock".
AvailableLists ==
    {<<>>,
     <<<<"R","o","c","k">>,
      <<"p","o","p">>,
      <<"i","n","d","i","e"," ","r","o","c","k">>,
      <<"p","o","p">>>>,
     <<<<"h","a","r","d"," ","r","o","c","k">>,
      <<"I","n","d","i","e"," ","R","o","c","k">>,
      <<"p","o","p"," ","r","o","c","k">>,
      <<"p","u","n","k"," ","r","o","c","k">>,
      <<"f","o","l","k"," ","r","o","c","k">>,
      <<"S","o","f","t"," ","R","o","c","k">>,
      <<"p","o","p">>,
      <<"k","-","p","o","p">>>>}

InitMatch ==
    /\ HandlerIdle
    /\ PagesIdle
    /\ ScorerIdle
    /\ ProgressIdle
    /\ GenresIdle
    /\ PromptIdle
    /\ EstimateIdle
    /\ \E aiGenres \in SeqsUpTo(AiWords, MaxAiGenres),
          availableGenres \in AvailableLists :
            matchArgs = [aiGenres |-> aiGenres, availableGenres |-> availableGenres]
    /\ matchOut = [ran |-> FALSE, genres |-> <<>>]

ApplyMatch ==
    /\ ~matchOut.ran
    /\ matchOut' = [ran |-> TRUE,
                    genres |-> matchGenresToAvailableSeeds(matchArgs.aiGenres,
                                                           matchArgs.availableGenres)]
    /\ UNCHANGED <<handlerVars, pageVars, scorerVars, progressRes, genreVars, matchArgs,
                   promptVars, estimateVars>>

NextMatch == ApplyMatch

SpecMatch == InitMatch /\ [][NextMatch]_vars

-----------------------------------------------------------------------------
(* SpecPrompt: analyzePlaylistPrompt against every answer of the LLM call *)

AnalysisFields == DOMAIN DefaultAnalysis

\* A description of n characters.
LongText(n) == [i \in 1..n |-> "x"]

\* The values the LLM puts in a field it supplies: ranges inside and outside
\* the feature's domain, descriptions of 10, 100 and 101 characters.
FieldValues ==
    [genres |-> { << <<"r","o","c","k">> >> },
     moods |-> { << <<"h","a","p","p","y">> >> },
     description |-> {LongText(10), LongText(100), LongText(101)},
     popularity_level |-> { <<"h","i","g","h">> },
     filter_logic |-> { <<"p","r","i","o","r","i","t","i","z","e"," ","e","n","e","r","g","y">> },
     energy_range |-> {<<3, 7>>, <<-2, 15>>},
     tempo_range |-> {<<90, 140>>, <<100, 400>>},
     danceability_range |-> {<<3, 7>>, <<-2, 15>>},
     acousticness_range |-> {<<3, 7>>, <<-2, 15>>},
     instrumentalness_range |-> {<<3, 7>>, <<-2, 15>>},
     valence_range |-> {<<3, 7>>, <<-2, 15>>}]

\* The JSON objects the LLM answers with: up to MaxReplyFields of the fields.
ReplyObjects ==
    UNION {{f \in [D -> UNION {FieldValues[d] : d \in D}] :
                \A d \in D : f[d] \in FieldValues[d]} :
           D \in {D \in SUBSET AnalysisFields : Cardinality(D) <= MaxReplyFields}}

NoFields == [d \in {} |-> <<>>]

\* How the LLM call settles: rejected ("throw"), a message without content,
\* content that is not JSON, the JSON value null, or a JSON object.
LlmReplies ==
    {[kind |-> k, fields |-> NoFields] : k \in {"throw", "nocontent", "badjson", "jsonnull"}}
        \cup {[kind |-> "object", fields |-> f] : f \in ReplyObjects}

\* analysis.description cut to 97 characters and '...' when it is longer
\* than 100.
TruncateDescription(analysis) ==
    IF "description" \in DOMAIN analysis /\ Len(analysis["description"]) > 100
    THEN [analysis EXCEPT !["description"] = SubSeq(@, 1, 97) \o <<".", ".", ".">>]
    ELSE analysis

\* Mutant of analyzePlaylistPrompt: the merge is {...analysis, ...defaultAnalysis}.
analyzePlaylistPrompt_DefaultsWin(reply) ==
    DefaultAnalysis

\* analyzePlaylistPrompt for one answer of the LLM call.  A rejected call,
\* JSON.parse failing, and the property read on null all end in the catch.
analyzePlaylistPrompt(reply) ==
    IF reply.kind \in {"throw", "badjson", "jsonnull"}
    THEN DefaultAnalysis
    ELSE LET parsed == IF reply.kind = "nocontent" THEN NoFields ELSE reply.fields
             analysis == TruncateDescription(parsed)
         IN  [f \in AnalysisFields |->
                IF f \in DOMAIN analysis THEN analysis[f] ELSE DefaultAnalysis[f]]

InitPrompt ==
    /\ HandlerIdle
    /\ PagesIdle
    /\ ScorerIdle
    /\ ProgressIdle
    /\ GenresIdle
    /\ MatchIdle
    /\ EstimateIdle
    /\ llmReply \in LlmReplies
    /\ analysisOut = [ran |-> FALSE, analysis |-> DefaultAnalysis]

ApplyAnalyze ==
    /\ ~analysisOut.ran
    /\ analysisOut' = [ran |-> TRUE, analysis |-> analyzePlaylistPrompt(llmReply)]
    /\ UNCHANGED <<handlerVars, pageVars, scorerVars, progressRes, genreVars, matchVars,
                   llmReply, estimateVars>>

NextPrompt == ApplyAnalyze

SpecPrompt == InitPrompt /\ [][NextPrompt]_vars

-----------------------------------------------------------------------------
(* SpecEnergy: filterTracksByAIAnalysis on two tracks with features that     *)
(* differ in energy only, under an analysis that emphasizes energy          *)

\* Energy values in tenths.
EnergyTenths == 0..10

EnergyRanges == {<<7, 10>>, <<0, 10>>, <<2, 5>>, <<4, 4>>}

HighEnergyAnalysis(range) ==
    [EnergyAnalysis EXCEPT
        !.energy_range = range,
        !.filter_logic = <<"p","r","i","o","r","i","t","i","z","e"," ","h","i","g","h"," ","e","n","e","r","g","y">>]

InitEnergy ==
    /\ HandlerIdle
    /\ PagesIdle
    /\ ProgressIdle
    /\ GenresIdle
    /\ MatchIdle
    /\ PromptIdle
    /\ EstimateIdle
    /\ \E e1, e2 \in EnergyTenths, popularity \in {40, 90},
          genres \in {<<>>, << << <<"r","o","c","k">> >> >>} :
         pool = [i \in 1..2 |->
                    [Track(IF i = 1 THEN "t1" ELSE "t2", popularity, "pool")
                        EXCEPT !.features = <<[FeaturesA EXCEPT
                                    !.energy = IF i = 1 THEN e1 ELSE e2]>>,
                               !.extractedGenres = genres]]
    /\ \E range \in EnergyRanges : poolAnalysis = HighEnergyAnalysis(range)
    /\ poolMax = 2
    /\ poolOut = [ran |-> FALSE, tracks |-> <<>>]

NextEnergy == ApplyFilter

SpecEnergy == InitEnergy /\ [][NextEnergy]_vars

-----------------------------------------------------------------------------
(* SpecEstimate: estimateProcessingTime called on its own.  Times are in     *)
(* hundredths of a second until the final Math.ceil.                        *)

PlaylistIds == {"plA", "plB"}

\* playlistSizes: the known sizes, for any subset of the playlists.
PlaylistSizeMaps ==
    UNION {[D -> {0, 20, 250}] : D \in SUBSET PlaylistIds}

\* tracksToProcess of one playlist
TracksToProcess(playlistId, config, playlistSizes) ==
    LET known == IF playlistId \in DOMAIN playlistSizes
                 THEN playlistSizes[playlistId] ELSE 0
        playlistSize == IF known = 0 THEN 50 ELSE known
    IN  IF config.maxTracksPerPlaylist = 0 THEN playlistSize
        ELSE Min(playlistSize, config.maxTracksPerPlaylist)

RECURSIVE TotalEstimatedTracks(_, _, _)
TotalEstimatedTracks(playlists, config, playlistSizes) ==
    IF playlists = <<>> THEN 0
    ELSE TracksToProcess(Head(playlists), config, playlistSizes)
            + TotalEstimatedTracks(Tail(playlists), config, playlistSizes)

\* Mutant of estimateProcessingTime: the playlist time is taken from the
\* average playlist instead of the total.
estimateProcessingTime_AveragePlaylist(sources, processingMode, playlistSizes) ==
    LET config == PROCESSING_CONFIGS[processingMode]
        baseTime == 500
        likedSongsTime == IF sources.useLikedSongs THEN 500 ELSE 0
        topTracksTime == IF sources.useTopTracks THEN 300 ELSE 0
        recommendationsTime == IF sources.useRecommendations THEN 500 ELSE 0
        totalEstimatedTracks ==
            IF Len(sources.playlists) = 0 THEN 0
            ELSE TotalEstimatedTracks(sources.playlists, config, playlistSizes)
                    \div Len(sources.playlists)
        playlistTime == (IF config.fetchAllPages THEN 2 * totalEstimatedTracks ELSE 0)
                            + 5 * totalEstimatedTracks
        audioFeaturesTime == 2 * Min(100 * config.targetPoolSize, 500)
        estimatedSeconds == baseTime + likedSongsTime + topTracksTime
                                + recommendationsTime + playlistTime + audioFeaturesTime
    IN  [estimatedSeconds |-> (estimatedSeconds + 99) \div 100,
         warningLevel |-> IF estimatedSeconds > 18000 THEN "high"
                          ELSE IF estimatedSeconds > 6000 THEN "medium" ELSE "low"]

\* estimateProcessingTime.  config.targetPoolSize is the source's value
\* divided by 100 and is multiplied back here.
estimateProcessingTime(sources, processingMode, playlistSizes) ==
    LET config == PROCESSING_CONFIGS[processingMode]
        baseTime == 500
        likedSongsTime == IF sources.useLikedSongs THEN 500 ELSE 0
        topTracksTime == IF sources.useTopTracks THEN 300 ELSE 0
        recommendationsTime == IF sources.useRecommendations THEN 500 ELSE 0
        totalEstimatedTracks ==
            TotalEstimatedTracks(sources.playlists, config, playlistSizes)
        playlistTime == (IF config.fetchAllPages THEN 2 * totalEstimatedTracks ELSE 0)
                            + 5 * totalEstimatedTracks
        audioFeaturesTime == IF config.useAudioFeatures
                             THEN 2 * Min(100 * config.targetPoolSize, 500)
                             ELSE 0
        estimatedSeconds == baseTime + likedSongsTime + topTracksTime
                                + recommendationsTime + playlistTime + audioFeaturesTime
    IN  [estimatedSeconds |-> (estimatedSeconds + 99) \div 100,
         warningLevel |-> IF estimatedSeconds > 18000 THEN "high"
                          ELSE IF estimatedSeconds > 6000 THEN "medium" ELSE "low"]

EstimateSources ==
    [useLikedSongs : BOOLEAN, useTopTracks : BOOLEAN, useRecommendations : BOOLEAN,
     playlists : SeqsUpTo(PlaylistIds, MaxEstimatePlaylists)]

InitEstimate ==
    /\ HandlerIdle
    /\ PagesIdle
    /\ ScorerIdle
    /\ ProgressIdle
    /\ GenresIdle
    /\ MatchIdle
    /\ PromptIdle
    /\ \E sources \in EstimateSources, mode \in Modes, sizes \in PlaylistSizeMaps :
         estimateArgs = [sources |-> sources, processingMode |-> mode,
                         playlistSizes |-> sizes]
    /\ estimateOut = [ran |-> FALSE, estimatedSeconds |-> 0]

ApplyEstimate ==
    /\ ~estimateOut.ran
    /\ estimateOut' =
         [ran |-> TRUE,
          estimatedSeconds |->
             estimateProcessingTime(estimateArgs.sources, estimateArgs.processingMode,
                                    estimateArgs.playlistSizes).estimatedSeconds]
    /\ UNCHANGED <<handlerVars, pageVars, scorerVars, progressRes, genreVars, matchVars,
                   promptVars, estimateArgs>>

NextEstimate == ApplyEstimate

SpecEstimate == InitEstimate /\ [][NextEstimate]_vars

-----------------------------------------------------------------------------
(* SpecRemaining: progress reads of one record as seconds pass *)

\* The clock values (seconds) at which the record is written and read.
ReadTimes == {0, 7, 31, 61, 121, 301}

\* The stage and progress of some of the handler's updates.
RemainingSteps ==
    {[stage |-> "analyzing", progress |-> 5],
     [stage |-> "creating", progress |-> 15],
     [stage |-> "collecting", progress |-> 20],
     [stage |-> "processing", progress |-> 75],
     [stage |-> "complete", progress |-> 100]}

\* One updatePlaylistProgress call of a request for playlist "sp1"; a request
\* passes the same processingMode to each of its calls.
TrackerStep ==
    /\ \E step \in RemainingSteps :
       \E mode \in IF MapHas(playlistProgressMap, "sp1")
                   THEN {playlistProgressMap["sp1"].processingMode}
                   ELSE Modes :
         playlistProgressMap' =
            updatePlaylistProgress(playlistProgressMap, "sp1", step.stage,
                                   step.progress, "", mode, now)
    /\ UNCHANGED <<now, created, req, otherVars>>

\* Seconds pass.
Elapse ==
    /\ \E t \in ReadTimes : t > now /\ now' = t
    /\ UNCHANGED <<playlistProgressMap, created, req, otherVars>>

NextRemaining ==
    \/ TrackerStep
    \/ Elapse
    \/ GetProgress

SpecRemaining == Init /\ [][NextRemaining]_vars

-----------------------------------------------------------------------------
(* SpecWeights: filterTracksByAIAnalysis called on one track with features,  *)
(* under analyses whose filter_logic names none, one or several dimensions   *)

FilterLogics ==
    {<<"S","o","r","t"," ","b","y"," ","p","o","p","u","l","a","r","i","t","y"," ","a","s"," ","f","a","l","l","b","a","c","k">>,
     <<"P","r","i","o","r","i","t","i","z","e"," ","h","i","g","h"," ","E","N","E","R","G","Y">>,
     <<"M","a","t","c","h"," ","t","h","e"," ","t","e","m","p","o">>,
     <<"A","r","o","u","n","d"," ","1","2","0"," ","B","P","M">>,
     <<"G","o","o","d"," ","t","o"," ","d","a","n","c","e"," ","t","o">>,
     <<"M","o","s","t","l","y"," ","a","c","o","u","s","t","i","c">>,
     <<"I","n","s","t","r","u","m","e","n","t","a","l"," ","o","n","l","y">>,
     <<"H","i","g","h"," ","v","a","l","e","n","c","e">>,
     <<"H","a","p","p","y"," ","s","o","n","g","s">>,
     <<"U","p","b","e","a","t"," ","t","e","m","p","o",","," ","h","i","g","h"," ","e","n","e","r","g","y">>,
     <<"H","a","p","p","y"," ","d","a","n","c","e"," ","t","u","n","e","s">>,
     <<"A","c","o","u","s","t","i","c"," ","i","n","s","t","r","u","m","e","n","t","s",","," ","h","a","p","p","y">>}

FeaturesB ==
    [energy |-> 3, tempo |-> 90, danceability |-> 4, acousticness |-> 8,
     valence |-> 2, instrumentalness |-> 9]

InitWeights ==
    /\ HandlerIdle
    /\ PagesIdle
    /\ ProgressIdle
    /\ GenresIdle
    /\ MatchIdle
    /\ PromptIdle
    /\ EstimateIdle
    /\ \E features \in {FeaturesA, FeaturesB}, popularity \in {40, 90} :
         pool = <<[Track("t1", popularity, "pool") EXCEPT !.features = <<features>>]>>
    /\ \E analysis \in Analyses, filterLogic \in FilterLogics :
         poolAnalysis = [analysis EXCEPT !.filter_logic = filterLogic]
    /\ poolMax = 1
    /\ poolOut = [ran |-> FALSE, tracks |-> <<>>]

SpecWeights == InitWeights /\ [][ApplyFilter]_vars

-----------------------------------------------------------------------------
(* SpecGenreScore: filterTracksByAIAnalysis called on one track, with or     *)
(* without features, whose derived genres meet the genres of the analysis    *)

\* extractedGenres of the track: absent, [], and lists of one, two and four.
TrackGenreLists ==
    {<<>>, << <<>> >>, <<<< <<"R","o","c","k">> >>>>, <<<<<<"r","o","c","k">>, <<"p","o","p">>>>>>,
     <<<<<<"r","o","c","k">>, <<"r","o","c","k","s">>, <<"r","o","c","k","y">>, <<"b","r","o","c","k">>>>>>}

\* analysis.genres
PromptGenreLists ==
    {<<>>, << <<"r","o","c","k">> >>, <<<<"R","O","C","K">>, <<"P","o","p">>>>, << <<"j","a","z","z">> >>,
     <<<<"r","o","c","k">>, <<"p","o","p">>, <<"r","o","c","k">>, <<"p","o","p">>, <<"r","o","c","k">>, <<"p","o","p">>>>,
     <<<<"r","o">>, <<"o","c">>, <<"c","k">>>>, << <<"r","o","c","k","e","r">> >>}

InitGenreScore ==
    /\ HandlerIdle
    /\ PagesIdle
    /\ ProgressIdle
    /\ GenresIdle
    /\ MatchIdle
    /\ PromptIdle
    /\ EstimateIdle
    /\ \E features \in {<<>>, <<FeaturesA>>}, popularity \in {40, 90},
          extractedGenres \in TrackGenreLists :
         pool = <<[Track("t1", popularity, "pool")
                     EXCEPT !.features = features,
                            !.extractedGenres = extractedGenres]>>
    /\ \E genres \in PromptGenreLists :
         poolAnalysis = [DefaultAnalysis EXCEPT !.genres = genres]
    /\ poolMax = 1
    /\ poolOut = [ran |-> FALSE, tracks |-> <<>>]

SpecGenreScore == InitGenreScore /\ [][ApplyFilter]_vars

-----------------------------------------------------------------------------
(* SpecPages: one call of fetchAllPages.  A URL is the number of the page it *)
(* names, 0 is null; an item is the pair <<page, position>>.                 *)

\* The items of page n: data.items absent (<<>>), or an array of up to
\* MaxPageItems items.
PageItems(n) ==
    {<<>>} \cup {<<[i \in 1..k |-> <<n, i>>]>> : k \in 0..MaxPageItems}

\* How the request of page n settles: a 2xx response with a JSON body (items,
\* next), a non-2xx response, a rejected fetch, a body that is not JSON.
PageOutcomes(n) ==
    {[kind |-> "ok", items |-> items, next |-> next] :
        items \in PageItems(n), next \in IF n < MaxPages THEN {0, n + 1} ELSE {0}}
      \cup {[kind |-> kind, items |-> <<>>, next |-> 0] :
                kind \in {"notok", "reject", "badbody"}}

\* fetch(nextUrl, ...) is issued.
SendRequest(f) ==
    [f EXCEPT !.pc = "fetch", !.events = Append(@, [kind |-> "request", ms |-> 0])]

\* The head of the while loop up to its next await, or the return.
LoopHead(f) ==
    IF f.nextUrl = 0 THEN [f EXCEPT !.pc = "returned"]
    ELSE IF Len(f.results) > 0
    THEN [f EXCEPT !.pc = "delay",
                   !.events = Append(@, [kind |-> "delay", ms |-> f.delay])]
    ELSE SendRequest(f)

\* fetchLikedSongs or fetchPlaylistTracks calls fetchAllPages with the
\* requestDelay of a mode that fetches all pages.
CallFetchAllPages ==
    /\ pageFetch.pc = "idle"
    /\ \E mode \in {m \in Modes : PROCESSING_CONFIGS[m].fetchAllPages} :
         pageFetch' = LoopHead([pageFetch EXCEPT
                                  !.delay = PROCESSING_CONFIGS[mode].requestDelay,
                                  !.nextUrl = 1])
    /\ UNCHANGED <<handlerVars, scorerVars, progressRes, genreVars, matchVars,
                   promptVars, estimateVars>>

\* The timer of the delay fires.
DelayDone ==
    /\ pageFetch.pc = "delay"
    /\ pageFetch' = SendRequest(pageFetch)
    /\ UNCHANGED <<handlerVars, scorerVars, progressRes, genreVars, matchVars,
                   promptVars, estimateVars>>

\* The page request settles.
PageDone ==
    /\ pageFetch.pc = "fetch"
    /\ \E outcome \in PageOutcomes(pageFetch.nextUrl) :
         LET f == [pageFetch EXCEPT !.pages = Append(@, outcome)]
         IN  pageFetch' =
                IF outcome.kind # "ok" THEN [f EXCEPT !.pc = "returned"]
                ELSE LoopHead([f EXCEPT
                        !.results = IF outcome.items = <<>> THEN @
                                    ELSE @ \o outcome.items[1],
                        !.nextUrl = outcome.next])
    /\ UNCHANGED <<handlerVars, scorerVars, progressRes, genreVars, matchVars,
                   promptVars, estimateVars>>

NextPages ==
    \/ CallFetchAllPages
    \/ DelayDone
    \/ PageDone

SpecPages == Init /\ [][NextPages]_vars

-----------------------------------------------------------------------------
(* SpecConcurrent: NumReqs generation requests interleaved at their awaits.  *)
(* The requests select no source, so that every interleaving of their        *)
(* tracker updates stays within reach: such a request awaits the prompt      *)
(* analysis, the genre seeds, the create call, collectTracks and the         *)
(* persistence.                                                              *)

\* The request bodies of this specification.
ConcurrentInputs(q) ==
    /\ q.sources = [useLikedSongs |-> FALSE, useTopTracks |-> FALSE,
                    useRecommendations |-> FALSE, playlists |-> <<>>]
    /\ q.processingMode \in {"quick", "complete"}
    /\ q.targetTrackCount = 1

\* A request arrives while others may be in flight.
BeginConcurrent(r) == Begin(r, FALSE) /\ ConcurrentInputs(req'[r])

\* The segments of the handler such a request runs through.
ConcurrentHandler(r) ==
    \/ BeginConcurrent(r)
    \/ AnalyzeDone(r)
    \/ GenresDone(r)
    \/ CreateDone(r)
    \/ EnrichStart(r)
    \/ PersistDone(r)

NextConcurrent ==
    \/ \E r \in Reqs : ConcurrentHandler(r)
    \/ Tick

SpecConcurrent == Init /\ [][NextConcurrent]_vars

-----------------------------------------------------------------------------
(* Claims *)

StageOrder == <<"initializing", "analyzing", "creating", "collecting",
                "processing", "selecting", "finalizing", "complete">>

StageRank(stage) == CHOOSE i \in DOMAIN StageOrder : StageOrder[i] = stage

AnyFeatures(tracks) == \E i \in DOMAIN tracks : HasFeatures(tracks[i])

\* The request has reached step 6 (its selection has run).
PastEnrichment(q) == \E i \in DOMAIN q.calls : q.calls[i].stage = "selecting"

\* C1: the progress values a request stores in the tracker, first under
\* 'preparing' and then under its playlist id, never decrease from one
\* updatePlaylistProgress call to the next.
C1_ProgressNeverDecreases ==
    \A r \in Reqs : \A i \in 1..(Len(req[r].calls) - 1) :
        req[r].calls[i].progress <= req[r].calls[i + 1].progress

\* C2: the stages a request stores in the tracker only move forward through
\* the order initializing, analyzing, creating, collecting, processing,
\* selecting, finalizing, complete.
C2_StageOnlyMovesForward ==
    \A r \in Reqs : \A i \in 1..(Len(req[r].calls) - 1) :
        StageRank(req[r].calls[i].stage) <= StageRank(req[r].calls[i + 1].stage)

\* Everything collectTracks fetched, in fetch order (liked songs, top tracks,
\* then each playlist).
FetchedInOrder(q) ==
    SelectSeq(q.allTracks, LAMBDA t : t.src \in {"liked", "top"}) \o q.playlistTracks

FirstFetched(q, id) ==
    LET all == FetchedInOrder(q)
    IN  all[CHOOSE i \in DOMAIN all :
                /\ all[i].id = id
                /\ \A j \in DOMAIN all : all[j].id = id => i <= j]

\* C3: in the pool collectTracks returns, a track id occurs once, and the
\* object kept for it is the one of the source fetched first.
C3_FirstSeenWins ==
    \A r \in Reqs :
        req[r].pc = "collected" =>
            LET q == req[r]
                result == q.collectedTracks
            IN  /\ \A i, j \in DOMAIN result : result[i].id = result[j].id => i = j
                /\ \A i \in DOMAIN result : result[i] = FirstFetched(q, result[i].id)

\* C4: when the create call succeeds, right after the migration step the
\* tracker holds under the new playlist id exactly the record that was stored
\* under 'preparing', and holds no entry under 'preparing'.
C4_MigrationMovesRecord ==
    [][\A r \in Reqs :
         (req[r].migrated = <<>> /\ req'[r].migrated # <<>>) =>
            LET after == req'[r].migrated[1]
                id == req'[r].playlistId
            IN  /\ PREPARING \in DOMAIN playlistProgressMap
                /\ id \in DOMAIN after
                /\ after[id] = playlistProgressMap[PREPARING]
                /\ PREPARING \notin DOMAIN after]_vars

C4_Witness ==
    \E r \in Reqs :
        /\ req[r].migrated # <<>>
        /\ req[r].playlistId \in DOMAIN req[r].migrated[1]
        /\ req[r].migrated[1][req[r].playlistId].progress = 15
        /\ req[r].migrated[1][req[r].playlistId].startTime = 1

SameTracksOnce(enriched, collected) ==
    /\ Len(enriched) = Len(collected)
    /\ \A i \in DOMAIN collected :
         Cardinality({j \in DOMAIN enriched : enriched[j].id = collected[i].id}) = 1

\* C5: whatever the bulk and the per-track audio-feature calls answer, the
\* enriched list handed to the selection holds every track of the collected
\* pool exactly once.
C5_EnrichmentKeepsEveryTrack ==
    \A r \in Reqs :
        PastEnrichment(req[r]) =>
            SameTracksOnce(req[r].tracksWithFeatures, req[r].collectedTracks)

\* C6: whenever no enriched track has features, the request ends with the
\* success response, audioFeaturesStatus 'unavailable', selectionMethod
\* 'popularity', and the collected pool sorted by popularity descending and
\* cut to targetTrackCount.
C6_DegradedStillSucceeds ==
    \A r \in Reqs :
        LET q == req[r]
        IN  (q.pc = "done" /\ PastEnrichment(q) /\ ~AnyFeatures(q.tracksWithFeatures)) =>
                /\ q.response.status = 201
                /\ q.response.audioFeaturesStatus = "unavailable"
                /\ q.response.selectionMethod = "popularity"
                /\ [i \in DOMAIN q.response.tracks |-> q.response.tracks[i].id]
                    = Ids(Slice(SortDesc(q.collectedTracks,
                                         Popularities(q.collectedTracks)),
                                q.targetTrackCount))

PopularityOrder(tracks, maxTracks) ==
    Ids(Slice(SortDesc(tracks, Popularities(tracks)), maxTracks))

C8_ReturnsMinOfMaxAndPool ==
    poolOut.ran =>
        /\ Len(poolOut.tracks) = Min(poolMax, Len(pool))
        /\ \A i \in DOMAIN poolOut.tracks :
             \E j \in DOMAIN pool : pool[j].id = poolOut.tracks[i].id
        /\ \A i, j \in DOMAIN poolOut.tracks :
             poolOut.tracks[i].id = poolOut.tracks[j].id => i = j

C8_Witness ==
    /\ poolOut.ran
    /\ Len(pool) = 3
    /\ poolMax = 2
    /\ Len(SelectSeq(pool, HasFeatures)) = 1
    /\ Len(poolOut.tracks) = 2

\* C9: if the create call returns a non-2xx response, the request ends with an
\* error response and makes no source fetch, no audio-feature lookup, no
\* track-append call and no persistence call.
C9_CreateFailureAborts ==
    \A r \in Reqs :
        req[r].createResponse \in {"notok", "notok_badbody"} =>
            /\ req[r].pc = "done"
            /\ req[r].response.status \in {403, 500}
            /\ req[r].effects \cap {"fetches", "features", "append", "persist"} = {}

C9_Witness ==
    \E r \in Reqs :
        /\ req[r].createResponse = "notok"
        /\ req[r].pc = "done"
        /\ req[r].response.status = 403

\* C10: if the track-append call fails (non-2xx or rejected), the request still
\* ends with the success response and its tracker record reaches stage
\* 'complete' with progress 100.
C10_AppendFailureStillSucceeds ==
    \A r \in Reqs :
        LET q == req[r]
        IN  (q.pc = "done" /\ q.addTracksResponse \in {"notok", "notok_badbody", "reject"}) =>
                /\ q.response.status = 201
                /\ q.playlistId \in DOMAIN playlistProgressMap
                /\ playlistProgressMap[q.playlistId].stage = "complete"
                /\ playlistProgressMap[q.playlistId].progress = 100


\* collectTracks has returned for this request.
CollectFinished(q) ==
    \E i \in DOMAIN q.calls :
        q.calls[i].stage = "complete" \/ q.calls[i].stage = "selecting"

\* C11: if track collection yields zero tracks, the request still creates the
\* playlist, makes no track-append call, and ends with the success response
\* with an empty track list and a tracker record at 'complete', 100.
C11_EmptyPoolStillSucceeds ==
    \A r \in Reqs :
        LET q == req[r]
        IN  (q.pc = "done" /\ CollectFinished(q) /\ q.collectedTracks = <<>>) =>
                /\ q.createResponse = "ok"
                /\ "create" \in q.effects
                /\ "append" \notin q.effects
                /\ q.response.status = 201
                /\ q.response.tracks = <<>>
                /\ q.playlistId \in DOMAIN playlistProgressMap
                /\ playlistProgressMap[q.playlistId].stage = "complete"
                /\ playlistProgressMap[q.playlistId].progress = 100

C11_Witness ==
    \E r \in Reqs :
        /\ req[r].pc = "done"
        /\ CollectFinished(req[r])
        /\ req[r].collectedTracks = <<>>
        /\ req[r].sources.useLikedSongs
        /\ Len(req[r].sources.playlists) = 2
        /\ req[r].response.status = 201

\* What the fetcher of source src returned to collectTracks.
FetchedFrom(q, src) == SelectSeq(FetchedInOrder(q), LAMBDA t : t.src = src)

SelectedSources(q) ==
    (IF q.sources.useLikedSongs THEN {"liked"} ELSE {})
        \cup (IF q.sources.useTopTracks THEN {"top"} ELSE {})
        \cup Range(LimitedPlaylistIds(q))

\* A call of the fetcher of src failed: it returned less than the source holds.
FetchFailed(q, src) == Len(FetchedFrom(q, src)) < Len(Library[src])

\* collectTracks did not make the request fail: a 500 after a successful
\* create call comes from the track-append call only.
CollectNeverThrows(q) ==
    (q.pc = "done" /\ q.response.status = 500 /\ q.createResponse = "ok") =>
        q.addTracksResponse \in {"reject", "notok_badbody"}

\* C12 as claimed: if a call of one source fetcher fails, collectTracks still
\* completes and the pool it returns holds the tracks of every other
\* selected source.
C12_FailedSourceIsLocal ==
    \A r \in Reqs :
        LET q == req[r]
        IN  /\ CollectNeverThrows(q)
            /\ q.pc = "collected" =>
                 \A s \in SelectedSources(q) :
                    FetchFailed(q, s) =>
                        \A o \in SelectedSources(q) \ {s} :
                            Range(Ids(FetchedFrom(q, o))) \subseteq
                                Range(Ids(q.collectedTracks))

\* C12 as amended: the same, provided the distinct tracks fetched do not
\* exceed the mode's targetPoolSize; in every case the pool is the fetched
\* tracks, one per id in fetch order, cut to targetPoolSize.
C12_FailedSourceIsLocalUpToPoolSize ==
    \A r \in Reqs :
        LET q == req[r]
            size == PROCESSING_CONFIGS[q.processingMode].targetPoolSize
            distinct == FirstIds(Ids(FetchedInOrder(q)))
        IN  /\ CollectNeverThrows(q)
            /\ q.pc = "collected" =>
                 \A s \in SelectedSources(q) :
                    FetchFailed(q, s) =>
                        /\ Ids(q.collectedTracks) = Slice(distinct, size)
                        /\ Len(distinct) <= size =>
                             \A o \in SelectedSources(q) \ {s} :
                                Range(Ids(FetchedFrom(q, o))) \subseteq
                                    Range(Ids(q.collectedTracks))

C12_Witness ==
    \E r \in Reqs :
        LET q == req[r]
        IN  /\ q.pc = "collected"
            /\ SelectedSources(q) = {"liked", "top", "plA"}
            /\ FetchedFrom(q, "liked") = <<>>
            /\ ~FetchFailed(q, "top")
            /\ ~FetchFailed(q, "plA")
            /\ Range(Ids(q.collectedTracks)) = {"t1", "t2", "t3"}


\* C13: a generation request without a prompt is answered with 400 and leaves
\* the progress map unchanged, with no LLM call, no playlist creation and no
\* track fetch.
C13_NoPromptNoSideEffect ==
    [][\A r \in Reqs :
         (req[r].pc = "idle" /\ req'[r].response.status = 400) =>
            /\ playlistProgressMap' = playlistProgressMap
            /\ created' = created
            /\ req'[r].effects = {}
            /\ req'[r].calls = <<>>]_vars

C13_Witness ==
    \E r \in Reqs :
        /\ req[r].pc = "done"
        /\ req[r].response.status = 400
        /\ MapHas(playlistProgressMap, "sp1")
        /\ ~MapHas(playlistProgressMap, PREPARING)

\* C14: a progress read of a key that is not in the tracker does not fail: it
\* answers with the default record, stage 'initializing', progress 5.
C14_UnknownKeyReadsDefault ==
    [][(/\ progressRes' # progressRes
        /\ progressRes'.key # ""
        /\ ~MapHas(playlistProgressMap, progressRes'.key)) =>
            /\ progressRes'.status = 200
            /\ Len(progressRes'.progress) = 1
            /\ progressRes'.progress[1].stage = "initializing"
            /\ progressRes'.progress[1].progress = 5
            /\ progressRes'.progress[1].progress \in 0..100
            /\ playlistProgressMap' = playlistProgressMap]_vars

C14_Witness ==
    /\ progressRes.key = "sp2"
    /\ progressRes.status = 200
    /\ progressRes.progress = <<DefaultProgress>>
    /\ MapHas(playlistProgressMap, "sp1")


\* C15: the genre-seed endpoint is requested at most once in any 24-hour
\* window: any two requests of it are at least 24 hours apart.
C15_OneSeedRequestPerDay ==
    \A i, j \in DOMAIN seedRequests :
        i < j => seedRequests[j] - seedRequests[i] >= CacheValidityTicks


SameGenre(a, g) == toLowerCase(a) = toLowerCase(g)

\* The available genres that contain, or are contained in, some AI genre.
PartialSet(aiGenres, availableGenres) ==
    {g \in Range(availableGenres) : \E a \in Range(aiGenres) : PartialMatch(a, g)}

\* C16: matchGenresToAvailableSeeds, compared case-insensitively: [] for empty
\* aiGenres; with an exact match, exactly the exact matches in the available
\* list's casing; otherwise the available genres that contain or are
\* contained in an AI genre, without duplicates, cut to at most 5.
C16_ExactThenPartialMatches ==
    matchOut.ran =>
        LET ai == matchArgs.aiGenres
            av == matchArgs.availableGenres
            out == matchOut.genres
            anyExact == \E a \in Range(ai), g \in Range(av) : SameGenre(a, g)
        IN  /\ ai = <<>> => out = <<>>
            /\ anyExact =>
                 /\ \A i \in DOMAIN out :
                      out[i] \in Range(av) /\ \E a \in Range(ai) : SameGenre(a, out[i])
                 /\ \A a \in Range(ai) :
                      (\E g \in Range(av) : SameGenre(a, g)) =>
                          \E i \in DOMAIN out : SameGenre(a, out[i])
            /\ (ai # <<>> /\ ~anyExact) =>
                 /\ Range(out) \subseteq PartialSet(ai, av)
                 /\ \A i, j \in DOMAIN out : out[i] = out[j] => i = j
                 /\ Len(out) = Min(5, Cardinality(PartialSet(ai, av)))

C16_Witness ==
    /\ matchOut.ran
    /\ Len(matchArgs.aiGenres) = 2
    /\ ~\E a \in Range(matchArgs.aiGenres), g \in Range(matchArgs.availableGenres) :
            SameGenre(a, g)
    /\ Cardinality(PartialSet(matchArgs.aiGenres, matchArgs.availableGenres)) > 5
    /\ Len(matchOut.genres) = 5


RangeFields ==
    {"energy_range", "danceability_range", "acousticness_range",
     "instrumentalness_range", "valence_range"}

\* C17 as claimed: analyzePlaylistPrompt returns the default analysis when
\* the LLM call fails or its content is not JSON, and otherwise all eleven
\* fields, each with the LLM's value where the LLM supplied it and the
\* default value where not.
C17_DefaultOrLlmValuePerField ==
    analysisOut.ran =>
        LET out == analysisOut.analysis
        IN  /\ DOMAIN out = AnalysisFields
            /\ llmReply.kind \in {"throw", "badjson"} => out = DefaultAnalysis
            /\ \A f \in AnalysisFields :
                 out[f] = IF f \in DOMAIN llmReply.fields THEN llmReply.fields[f]
                          ELSE DefaultAnalysis[f]

\* C17 as amended: the same, except that a supplied description longer than
\* 100 characters is returned cut to its first 97 characters and '...'.
C17_DefaultOrLlmValueDescriptionCut ==
    analysisOut.ran =>
        LET out == analysisOut.analysis
            supplied == llmReply.fields
        IN  /\ DOMAIN out = AnalysisFields
            /\ llmReply.kind \in {"throw", "badjson"} => out = DefaultAnalysis
            /\ \A f \in AnalysisFields :
                 out[f] = IF f \notin DOMAIN supplied THEN DefaultAnalysis[f]
                          ELSE IF f = "description" /\ Len(supplied[f]) > 100
                          THEN SubSeq(supplied[f], 1, 97) \o <<".", ".", ".">>
                          ELSE supplied[f]

C17_Witness ==
    /\ analysisOut.ran
    /\ llmReply.kind = "object"
    /\ DOMAIN llmReply.fields = {"description", "energy_range"}
    /\ Len(llmReply.fields["description"]) = 101
    /\ Len(analysisOut.analysis["description"]) = 100
    /\ analysisOut.analysis["energy_range"] = llmReply.fields["energy_range"]
    /\ analysisOut.analysis["tempo_range"] = <<0, 300>>

\* C18: in every analysis analyzePlaylistPrompt returns, the bounds of the
\* five normalized ranges lie within 0..1 (0..10 tenths) and the bounds of
\* tempo_range within 0..300.
C18_RangesWithinDomains ==
    analysisOut.ran =>
        LET out == analysisOut.analysis
        IN  /\ \A f \in RangeFields : \A i \in 1..2 : out[f][i] \in 0..10
            /\ \A i \in 1..2 : out["tempo_range"][i] \in 0..300


\* Twice the distance of a track's energy from the midpoint of energy_range.
EnergyDistance2(track, analysis) ==
    Abs(2 * track.features[1].energy - Midpoint2(analysis.energy_range))

SameButEnergy(a, b) ==
    /\ HasFeatures(a) /\ HasFeatures(b)
    /\ a.popularity = b.popularity
    /\ a.extractedGenres = b.extractedGenres
    /\ [a.features[1] EXCEPT !.energy = 0] = [b.features[1] EXCEPT !.energy = 0]

\* C19: with filter_logic 'prioritize high energy', of two tracks with
\* features that are equal in popularity, genres and every feature but
\* energy, the one whose energy is closer to the midpoint of energy_range
\* gets the strictly higher score.
C19_CloserEnergyScoresHigher ==
    (poolOut.ran /\ toLowerCase(poolAnalysis.filter_logic) = poolAnalysis.filter_logic
                 /\ includes(poolAnalysis.filter_logic, <<"e","n","e","r","g","y">>)) =>
        /\ Len(poolOut.tracks) = Min(poolMax, Len(pool))
        /\ \A i, j \in DOMAIN poolOut.tracks :
             LET a == poolOut.tracks[i]
                 b == poolOut.tracks[j]
             IN  (/\ SameButEnergy(a, b)
                  /\ EnergyDistance2(a, poolAnalysis) < EnergyDistance2(b, poolAnalysis)) =>
                      a.score[1] > b.score[1]

C19_Witness ==
    /\ poolOut.ran
    /\ Len(poolOut.tracks) = 2
    /\ poolAnalysis.energy_range = <<7, 10>>
    /\ pool[1].features[1].energy = 6
    /\ pool[2].features[1].energy = 10
    /\ SameButEnergy(pool[1], pool[2])
    /\ poolOut.tracks[1].id = "t2"
    /\ poolOut.tracks[1].score[1] = poolOut.tracks[2].score[1] + 240


\* The source selections that extend sources by one step: one more flag
\* turned on, or one more playlist id.
MoreSources(sources) ==
    {[sources EXCEPT !.useLikedSongs = TRUE],
     [sources EXCEPT !.useTopTracks = TRUE],
     [sources EXCEPT !.useRecommendations = TRUE]}
        \cup {[sources EXCEPT !.playlists = Append(@, id)] : id \in PlaylistIds}

\* C20: for every mode and playlist-size map, turning on one more source flag
\* or adding a playlist id never lowers estimatedSeconds, and the same
\* inputs give the same result.
C20_EstimateMonotoneInSources ==
    estimateOut.ran =>
        LET mode == estimateArgs.processingMode
            sizes == estimateArgs.playlistSizes
        IN  /\ estimateOut.estimatedSeconds =
                 estimateProcessingTime(estimateArgs.sources, mode, sizes).estimatedSeconds
            /\ \A more \in MoreSources(estimateArgs.sources) :
                 estimateOut.estimatedSeconds <=
                    estimateProcessingTime(more, mode, sizes).estimatedSeconds

C20_Witness ==
    /\ estimateOut.ran
    /\ estimateArgs.processingMode = "complete"
    /\ estimateArgs.sources.playlists = <<"plA">>
    /\ ~estimateArgs.sources.useLikedSongs
    /\ "plA" \in DOMAIN estimateArgs.playlistSizes
    /\ estimateArgs.playlistSizes["plA"] = 250
    /\ "plB" \in DOMAIN estimateArgs.playlistSizes
    /\ estimateArgs.playlistSizes["plB"] = 20
    /\ estimateOut.estimatedSeconds = 33

\* The stop condition of the client's poller on the answer of a progress read.
PollStops(res) ==
    \E i \in DOMAIN res.progress :
        res.progress[i].progress = 100 \/ res.progress[i].stage = "complete"

\* C21: the tracker holds stage 'complete' or progress 100 under a request's
\* playlist id only after the request has selected, appended and attempted
\* persistence, so a poll that stops on 'complete' or 100 never stops while
\* the request is still running.
C21_CompleteOnlyAfterPersistence ==
    \A r \in Reqs :
        LET q == req[r]
        IN  (q.playlistId # "" /\ MapHas(playlistProgressMap, q.playlistId)) =>
                /\ (playlistProgressMap[q.playlistId].stage = "complete"
                      \/ playlistProgressMap[q.playlistId].progress = 100) =>
                        (q.pc = "done" /\ "persist" \in q.effects)
                /\ PollStops(getProgress(playlistProgressMap, q.playlistId, now)) =>
                        ~InFlight(q)

\* C24: when a request that ran alone has ended, with whatever response, the
\* tracker has no entry under 'preparing'.
C24_NoPlaceholderAfterRequest ==
    (\A r \in Reqs : ~InFlight(req[r])) => ~MapHas(playlistProgressMap, PREPARING)

\* The progress values collectTracks has passed to its callback so far: the
\* calls after the handler's step 4 update (20) up to collectTracks' own
\* 'complete'.
CollectorCalls(q) ==
    LET starts == {i \in DOMAIN q.calls : q.calls[i].progress = 20}
    IN  IF starts = {} THEN <<>>
        ELSE LET s == CHOOSE i \in starts : TRUE
                 ends == {i \in (s + 1)..Len(q.calls) : q.calls[i].stage = "complete"}
                 e == IF ends = {} THEN Len(q.calls)
                      ELSE CHOOSE i \in ends : \A j \in ends : i <= j
             IN  [i \in 1..(e - s) |-> q.calls[s + i].progress]

\* collectTracks cut the pool of this request to targetPoolSize.
PoolWasCut(q) ==
    Len(FirstIds(Ids(FetchedInOrder(q)))) >
        PROCESSING_CONFIGS[q.processingMode].targetPoolSize

\* C25: the progress values collectTracks passes to its callback never
\* decrease and are, in this order, 10 (liked songs), 30 (top tracks), 40 up
\* to 80 (playlists), 85 (dedupe), 90 (only when the pool is cut), 100 (done).
C25_CollectorProgressInOrder ==
    \A r \in Reqs :
        LET q == req[r]
            p == CollectorCalls(q)
            Has(v) == \E i \in DOMAIN p : p[i] = v
        IN  /\ \A i \in 1..(Len(p) - 1) : p[i] <= p[i + 1]
            /\ \A i \in DOMAIN p : p[i] \in {10, 30} \cup (40..80) \cup {85, 90, 100}
            /\ Has(10) => q.sources.useLikedSongs
            /\ Has(30) => q.sources.useTopTracks
            /\ (\E i \in DOMAIN p : p[i] \in 40..80) => Len(q.sources.playlists) > 0
            /\ q.pc = "collected" =>
                 /\ Has(10) = q.sources.useLikedSongs
                 /\ Has(30) = q.sources.useTopTracks
                 /\ Has(40) = (Len(q.sources.playlists) > 0)
                 /\ Has(80) = (Len(LimitedPlaylistIds(q)) > 0)
                 /\ Has(85)
                 /\ Has(90) = PoolWasCut(q)
                 /\ p[Len(p)] = 100

C25_Witness ==
    \E r \in Reqs :
        /\ req[r].pc = "collected"
        /\ CollectorCalls(req[r]) = <<10, 30, 40, 60, 80, 85, 90, 100>>

\* C26: the pool collectTracks returns has pairwise distinct ids and at most
\* targetPoolSize tracks, and when the deduplicated sequence is longer the
\* pool is its first targetPoolSize tracks in collection order (liked songs,
\* top tracks, playlists).
C26_PoolIsDistinctPrefix ==
    \A r \in Reqs :
        req[r].pc = "collected" =>
            LET q == req[r]
                size == PROCESSING_CONFIGS[q.processingMode].targetPoolSize
                result == Ids(q.collectedTracks)
                deduplicated == FirstIds(Ids(FetchedInOrder(q)))
            IN  /\ \A i, j \in DOMAIN result : result[i] = result[j] => i = j
                /\ Len(result) <= size
                /\ IF Len(deduplicated) > size
                   THEN result = [i \in 1..size |-> deduplicated[i]]
                   ELSE result = deduplicated

C26_Witness ==
    \E r \in Reqs :
        /\ req[r].pc = "collected"
        /\ req[r].processingMode = "quick"
        /\ Ids(FetchedInOrder(req[r])) = <<"t1", "t2", "t2", "t3", "t3", "t1">>
        /\ Ids(req[r].collectedTracks) = <<"t1", "t2">>

\* The fixed total (seconds) the claim gives for each mode.
ClaimedTotal(mode) ==
    IF mode \in {"quick", "standard", "comprehensive", "complete"}
    THEN [quick |-> 30, standard |-> 60, comprehensive |-> 120, complete |-> 300][mode]
    ELSE 60

\* C30: for a key in the tracker, a progress read returns the remaining time
\* max(0, T - elapsed), T the total of the record's mode (60 for an unknown
\* mode), raised to at least 0.8 x T while the record's progress is below 20;
\* the value is never negative and never above T, and the read leaves the
\* stored record as it was.
C30_RemainingTimeOnRead ==
    [][(/\ progressRes' # progressRes
        /\ progressRes'.key # ""
        /\ MapHas(playlistProgressMap, progressRes'.key)) =>
            LET record == playlistProgressMap[progressRes'.key]
                T == ClaimedTotal(record.processingMode)
                elapsed == now - record.startTime
                left == IF T - elapsed > 0 THEN T - elapsed ELSE 0
                value == progressRes'.progress[1].remainingTimeEstimate
            IN  /\ progressRes'.status = 200
                /\ value = IF record.progress < 20 /\ 10 * left < 8 * T
                           THEN (8 * T) \div 10 ELSE left
                /\ value >= 0
                /\ elapsed >= 0 => value <= T
                /\ progressRes'.progress[1].stage = record.stage
                /\ progressRes'.progress[1].progress = record.progress
                /\ playlistProgressMap' = playlistProgressMap
                /\ getEstimatedTimeForMode("turbo") = ClaimedTotal("turbo")]_vars

C30_Witness ==
    /\ progressRes.key = "sp1"
    /\ MapHas(playlistProgressMap, "sp1")
    /\ playlistProgressMap["sp1"].processingMode = "quick"
    /\ playlistProgressMap["sp1"].progress = 15
    /\ playlistProgressMap["sp1"].startTime = 31
    /\ now = 61
    /\ progressRes.progress[1].progress = 15
    /\ progressRes.progress[1].remainingTimeEstimate = 24

\* The claim's table: the keywords in the order they are looked for, the
\* dimension each emphasizes and its secondary dimension.
Emphases ==
    <<[keywords |-> {<<"e","n","e","r","g","y">>}, main |-> "energy", secondary |-> "tempo"],
      [keywords |-> {<<"t","e","m","p","o">>, <<"b","p","m">>}, main |-> "tempo", secondary |-> "energy"],
      [keywords |-> {<<"d","a","n","c","e">>}, main |-> "danceability", secondary |-> "energy"],
      [keywords |-> {<<"a","c","o","u","s","t","i","c">>},
       main |-> "acousticness", secondary |-> "valence"],
      [keywords |-> {<<"i","n","s","t","r","u","m","e","n","t">>},
       main |-> "instrumentalness", secondary |-> "acousticness"],
      [keywords |-> {<<"v","a","l","e","n","c","e">>, <<"h","a","p","p">>},
       main |-> "valence", secondary |-> "energy"]>>

Dimensions ==
    <<"energy", "tempo", "danceability", "acousticness", "valence", "instrumentalness">>

\* The rows of the table with a keyword that occurs in the text.
Emphasized(text) ==
    {i \in DOMAIN Emphases : \E k \in Emphases[i].keywords : includes(text, k)}

\* Twice the weight the claim gives to a dimension.
Weight2(text, dimension) ==
    IF Emphasized(text) = {} THEN 2
    ELSE LET first == CHOOSE i \in Emphasized(text) : \A j \in Emphasized(text) : i <= j
         IN  IF dimension = Emphases[first].main THEN 6
             ELSE IF dimension = Emphases[first].secondary THEN 3
             ELSE 2

RECURSIVE WeightedSum2(_, _, _)
WeightedSum2(text, details, n) ==
    IF n = 0 THEN 0
    ELSE Weight2(text, Dimensions[n]) * details[Dimensions[n]]
            + WeightedSum2(text, details, n - 1)

\* C28: for a track with features, the feature part of the score is 3 x the
\* dimension emphasized by the first keyword found in the lower-cased
\* filter_logic (in the order energy, tempo or bpm, dance, acoustic,
\* instrument, valence or happ) + 1.5 x its secondary + 1 x each other
\* dimension, and the plain sum of the six when no keyword occurs.
C28_WeightsByFirstKeyword ==
    poolOut.ran =>
        \A i \in DOMAIN poolOut.tracks :
            LET track == poolOut.tracks[i]
                details == track.scoreDetails[1]
                featurePart == track.score[1] - 8 * track.popularity - details.genre
            IN  HasFeatures(track) =>
                    2 * featurePart =
                        WeightedSum2(toLowerCase(poolAnalysis.filter_logic), details,
                                     Len(Dimensions))

C28_Witness ==
    /\ poolOut.ran
    /\ poolAnalysis.filter_logic = <<"U","p","b","e","a","t"," ","t","e","m","p","o",","," ","h","i","g","h"," ","e","n","e","r","g","y">>
    /\ Len(poolOut.tracks) = 1
    /\ HasFeatures(poolOut.tracks[1])
    /\ poolOut.tracks[1].scoreDetails[1].energy # poolOut.tracks[1].scoreDetails[1].tempo
    /\ poolOut.tracks[1].score[1] =
          8 * poolOut.tracks[1].popularity
            + 3 * poolOut.tracks[1].scoreDetails[1].energy
            + (3 * poolOut.tracks[1].scoreDetails[1].tempo) \div 2
            + poolOut.tracks[1].scoreDetails[1].danceability
            + poolOut.tracks[1].scoreDetails[1].acousticness
            + poolOut.tracks[1].scoreDetails[1].valence
            + poolOut.tracks[1].scoreDetails[1].instrumentalness

\* The genre score added to a scored track, in units of 1/80: recorded in
\* scoreDetails for a track with features, and what the score holds besides
\* popularity and the flat bonus for a track without.
GenrePart(track) ==
    IF HasFeatures(track) THEN track.scoreDetails[1].genre
    ELSE track.score[1] - 8 * track.popularity
            - (IF track.popularity > 70 THEN 1600 ELSE 0)

DerivedGenres(track) ==
    IF track.extractedGenres = <<>> THEN <<>> ELSE track.extractedGenres[1]

\* The prompt genres (by position) equal to a derived genre of the track.
ExactGenres(track, analysis) ==
    {k \in DOMAIN analysis.genres :
        \E j \in DOMAIN DerivedGenres(track) :
            SameGenre(analysis.genres[k], DerivedGenres(track)[j])}

\* The pairs of a derived genre and a prompt genre of which one contains the
\* other.
SubstringPairs(track, analysis) ==
    {p \in (DOMAIN DerivedGenres(track)) \X (DOMAIN analysis.genres) :
        PartialMatch(analysis.genres[p[2]], DerivedGenres(track)[p[1]])}

\* C29: the genre score of a track lies within 0..15: 3 per prompt genre that
\* equals, case-insensitively, a derived genre of the track; 1.5 per
\* substring match, counted only when there is no exact match; capped at 15.
C29_GenreScoreWithinCap ==
    poolOut.ran =>
        \A i \in DOMAIN poolOut.tracks :
            LET track == poolOut.tracks[i]
                exact == Cardinality(ExactGenres(track, poolAnalysis))
                partial == Cardinality(SubstringPairs(track, poolAnalysis))
                uncapped == IF exact > 0 THEN 240 * exact ELSE 120 * partial
            IN  /\ GenrePart(track) \in 0..1200
                /\ GenrePart(track) = IF uncapped > 1200 THEN 1200 ELSE uncapped

C29_Witness ==
    /\ poolOut.ran
    /\ Len(poolOut.tracks) = 1
    /\ Len(DerivedGenres(poolOut.tracks[1])) = 4
    /\ poolAnalysis.genres = << <<"r","o","c","k">> >>
    /\ Cardinality(SubstringPairs(poolOut.tracks[1], poolAnalysis)) = 4
    /\ GenrePart(poolOut.tracks[1]) = 240

\* The items of the pages that answered, in page order.
RECURSIVE GatheredItems(_)
GatheredItems(pages) ==
    IF pages = <<>> THEN <<>>
    ELSE LET last == pages[Len(pages)]
         IN  GatheredItems(SubSeq(pages, 1, Len(pages) - 1))
                \o (IF last.kind = "ok" /\ last.items # <<>> THEN last.items[1]
                    ELSE <<>>)

\* C27: in fetchAllPages a delay of the configured request delay is awaited
\* between every two consecutive page requests, whatever the pages contain,
\* and the fetch stops at the first page that fails, returning the items
\* gathered so far.
C27_DelayBetweenPageRequests ==
    LET f == pageFetch
    IN  /\ \A i \in 2..Len(f.events) :
             f.events[i].kind = "request" =>
                f.events[i - 1] = [kind |-> "delay", ms |-> f.delay]
        /\ \A i \in DOMAIN f.pages :
             f.pages[i].kind # "ok" => (i = Len(f.pages) /\ f.pc = "returned")
        /\ f.pc = "returned" => f.results = GatheredItems(f.pages)

\* C22: with two requests interleaved at their awaits, the record under a
\* request's playlist id right after its migration step was written by that
\* request only: it is there, and it holds the stage, progress and mode of
\* the request's own last update under 'preparing' ('creating', 15).
C22_MigratedRecordIsOwn ==
    \A r \in Reqs :
        LET q == req[r]
        IN  q.migrated # <<>> =>
                /\ MapHas(q.migrated[1], q.playlistId)
                /\ q.migrated[1][q.playlistId].stage = "creating"
                /\ q.migrated[1][q.playlistId].progress = 15
                /\ q.migrated[1][q.playlistId].processingMode = q.processingMode

Succeeded(q) == q.pc = "done" /\ q.response.status = 201

\* C23: for requests interleaved in any order, a request that returned the
\* success response has, from then on, a record under its own playlist id at
\* 'complete', 100; and once the requests have all responded, one of them
\* with success, the tracker has no entry under 'preparing'.
C23_SuccessLeavesCompleteAndNoPlaceholder ==
    /\ \A r \in Reqs :
         Succeeded(req[r]) =>
            /\ MapHas(playlistProgressMap, req[r].playlistId)
            /\ playlistProgressMap[req[r].playlistId].stage = "complete"
            /\ playlistProgressMap[req[r].playlistId].progress = 100
    /\ ((\A r \in Reqs : ~InFlight(req[r])) /\ (\E r \in Reqs : Succeeded(req[r]))) =>
            ~MapHas(playlistProgressMap, PREPARING)

=============================================================================
